---- MODULE Spec2Model ----
(***************************************************************************)
(* Account pool manager of the Antigravity gateway: sticky / failover      *)
(* account selection, per-(account, model) rate limits, validity flags,    *)
(* and the loading of the persisted account configuration.                 *)
(*                                                                         *)
(* Time is counted in units of one minute.  JavaScript array indices are   *)
(* kept 0-based (currentIndex, newIndex, idx); the sequence of accounts is *)
(* 1-based, so accounts[idx] of the source is accounts[idx + 1] here.      *)
(* A nullable value (null / undefined) is the empty sequence None, a       *)
(* present value v is Some(v).                                             *)
(***************************************************************************)
EXTENDS Integers, Sequences, FiniteSets, TLC

\* ------------------------------------------------------------------ bounds
\* Largest number of accounts in the persisted configuration.
MaxAccounts == 2
\* The clock (Date.now(), in minutes) runs from 0 to MaxTime.
MaxTime == 2
\* Number of markRateLimited / markInvalid calls explored in one run (the
\* persisted configuration supplies further rate limits).
MaxMarks == 1

\* --------------------------------------------------------------- constants
\* constants.js: the max-wait-before-error threshold (about 2 minutes) and
\* the default cooldown, in minutes.
MAX_WAIT_BEFORE_ERROR_MS == 2
DEFAULT_COOLDOWN_MS == 1

None == <<>>
Some(v) == <<v>>
\* JavaScript's  v ?? d
Nullish(v, d) == IF v = None THEN d ELSE v[1]

\* The model ids a request can carry.
Models == {"m1", "m2"}
\* modelId: string | null
ModelArgs == {None} \cup {Some(m) : m \in Models}
\* resetMs values handed to markRateLimited: absent, 0, a delay beyond the
\* max-wait threshold (which the clock brings down to it and below).
ResetArgs == {None, Some(0), Some(MAX_WAIT_BEFORE_ERROR_MS + 1)}
\* settings.cooldownDurationMs of the persisted configuration.
CooldownSettings == {None, Some(MAX_WAIT_BEFORE_ERROR_MS)}
\* Account emails: the account at 0-based position i has email i + 1; in a
\* pool of fewer than MaxAccounts accounts the larger emails are unknown.
Emails == 1..MaxAccounts
\* config.activeIndex of the persisted configuration (None: missing).
PersistedIndexes ==
    {None, Some(0 - MaxAccounts - 1)} \cup {Some(i) : i \in (0 - 1)..MaxAccounts}

\* JavaScript's  a % n  (the sign follows the dividend)
JsRem(a, n) == IF a >= 0 THEN a % n ELSE 0 - ((0 - a) % n)

\* ModelRateLimit { isRateLimited, resetTime }
Limit(flag, reset) == [isRateLimited |-> flag, resetTime |-> reset]
NoLimits == [m \in Models |-> None]

\* accounts[idx] of the source: undefined outside 0 .. length-1
HasAccountAt(accounts, idx) == idx >= 0 /\ idx < Len(accounts)
AccountAt(accounts, idx) == accounts[idx + 1]

\* limit.isRateLimited && limit.resetTime !== null && limit.resetTime > Date.now()
LimitActive(limit, now) ==
    /\ limit.isRateLimited
    /\ limit.resetTime # None
    /\ limit.resetTime[1] > now

\* modelId && account.modelRateLimits?.[modelId], then the active test
BlockedFor(account, modelId, now) ==
    /\ modelId # None
    /\ account.modelRateLimits[modelId[1]] # None
    /\ LimitActive(account.modelRateLimits[modelId[1]][1], now)

\* selection.ts isAccountUsable (the account is known to exist)
isAccountUsable(account, modelId, now) ==
    IF account.isInvalid THEN FALSE
    ELSE ~BlockedFor(account, modelId, now)

\* rate-limits.ts getAvailableAccounts: the 0-based positions it keeps
getAvailableAccounts(accounts, modelId, now) ==
    {i \in 0..(Len(accounts) - 1) :
        /\ ~AccountAt(accounts, i).isInvalid
        /\ ~BlockedFor(AccountAt(accounts, i), modelId, now)}

\* isAllRateLimited that does not count an invalid account as unavailable
isAllRateLimitedValidOnly(accounts, modelId, now) ==
    IF Len(accounts) = 0 THEN TRUE
    ELSE IF modelId = None THEN FALSE
    ELSE \A i \in 0..(Len(accounts) - 1) :
            LET limit == AccountAt(accounts, i).modelRateLimits[modelId[1]]
            IN  limit # None /\ LimitActive(limit[1], now)

\* rate-limits.ts isAllRateLimited
isAllRateLimited(accounts, modelId, now) ==
    IF Len(accounts) = 0 THEN TRUE
    ELSE IF modelId = None THEN FALSE
    ELSE \A i \in 0..(Len(accounts) - 1) :
            LET acc == AccountAt(accounts, i)
                limit == acc.modelRateLimits[modelId[1]]
            IN  IF acc.isInvalid THEN TRUE
                ELSE limit # None /\ LimitActive(limit[1], now)

\* the sweep of one entry without the test of resetTime against the clock
SweepLimitEager(limit, now) ==
    IF limit # None /\ limit[1].isRateLimited /\ limit[1].resetTime # None
    THEN Some(Limit(FALSE, None))
    ELSE limit

\* rate-limits.ts clearExpiredLimits: one entry
SweepLimit(limit, now) ==
    IF limit # None /\ limit[1].isRateLimited /\ limit[1].resetTime # None
       /\ limit[1].resetTime[1] <= now
    THEN Some(Limit(FALSE, None))
    ELSE limit

\* rate-limits.ts clearExpiredLimits: the accounts after the sweep
clearExpiredLimits(accounts, now) ==
    [i \in 1..Len(accounts) |->
        [accounts[i] EXCEPT !.modelRateLimits =
            [m \in Models |-> SweepLimit(accounts[i].modelRateLimits[m], now)]]]

\* the count clearExpiredLimits returns
clearedCount(accounts, now) ==
    Cardinality({<<i, m>> \in (1..Len(accounts)) \X Models :
        SweepLimit(accounts[i].modelRateLimits[m], now) # accounts[i].modelRateLimits[m]})

Min(S) == CHOOSE x \in S : \A y \in S : x <= y

\* AccountSelectionResult { account, newIndex } with the accounts as mutated
\* and whether onSave was called
Selection(accounts, account, newIndex, saved) ==
    [accounts |-> accounts, account |-> account, newIndex |-> newIndex, saved |-> saved]

\* account.lastUsed = Date.now()
Touch(accounts, idx, now) ==
    [accounts EXCEPT ![idx + 1].lastUsed = Some(now)]

\* "Clamp index to valid range" of pickNext / getCurrentStickyAccount /
\* shouldWaitForCurrentAccount
ClampIndex(accounts, currentIndex) ==
    IF currentIndex >= Len(accounts) THEN 0 ELSE currentIndex

\* selection.ts pickNext: the loop  for (i = 1; i <= accounts.length; i++)
\* returns at the first i whose accounts[(index + i) % length] is usable
pickNextHits(accounts, index, modelId, now) ==
    {i \in 1..Len(accounts) :
        LET idx == JsRem(index + i, Len(accounts))
        IN  /\ HasAccountAt(accounts, idx)
            /\ isAccountUsable(AccountAt(accounts, idx), modelId, now)}

\* pickNext that hands out the account after the current one even when no
\* account is usable
pickNextEvenIfUnusable(accounts, currentIndex, modelId, now) ==
    LET swept == clearExpiredLimits(accounts, now)
        index == ClampIndex(swept, currentIndex)
        hits == pickNextHits(swept, index, modelId, now)
        idx == IF hits = {} THEN JsRem(index + 1, Len(swept))
               ELSE JsRem(index + Min(hits), Len(swept))
    IN  IF Len(swept) = 0 \/ ~HasAccountAt(swept, idx)
        THEN Selection(swept, None, currentIndex, FALSE)
        ELSE Selection(Touch(swept, idx, now), Some(idx), idx, TRUE)

\* pickNext that scans the array from its start instead of from the position
\* after the current one
pickNextFromStart(accounts, currentIndex, modelId, now) ==
    LET swept == clearExpiredLimits(accounts, now)
        hits == {i \in 0..(Len(swept) - 1) : isAccountUsable(AccountAt(swept, i), modelId, now)}
    IN  IF hits = {} THEN Selection(swept, None, currentIndex, FALSE)
        ELSE Selection(Touch(swept, Min(hits), now), Some(Min(hits)), Min(hits), TRUE)

pickNext(accounts, currentIndex, modelId, now) ==
    LET swept == clearExpiredLimits(accounts, now)
        available == getAvailableAccounts(swept, modelId, now)
        index == ClampIndex(swept, currentIndex)
        hits == pickNextHits(swept, index, modelId, now)
    IN  IF available = {} THEN Selection(swept, None, currentIndex, FALSE)
        ELSE IF hits = {} THEN Selection(swept, None, currentIndex, FALSE)
        ELSE LET idx == JsRem(index + Min(hits), Len(swept))
             IN  Selection(Touch(swept, idx, now), Some(idx), idx, TRUE)

\* getCurrentStickyAccount that rotates: it hands out the next usable account
\* instead of the current one
getCurrentStickyAccountRotating(accounts, currentIndex, modelId, now) ==
    pickNext(accounts, currentIndex, modelId, now)

\* selection.ts getCurrentStickyAccount
getCurrentStickyAccount(accounts, currentIndex, modelId, now) ==
    LET swept == clearExpiredLimits(accounts, now)
        index == ClampIndex(swept, currentIndex)
    IN  IF Len(swept) = 0 THEN Selection(swept, None, currentIndex, FALSE)
        ELSE IF HasAccountAt(swept, index)
                /\ isAccountUsable(AccountAt(swept, index), modelId, now)
        THEN Selection(Touch(swept, index, now), Some(index), index, TRUE)
        ELSE Selection(swept, None, index, FALSE)

\* ShouldWaitResult { shouldWait, waitMs }
WaitResult(shouldWait, waitMs) == [shouldWait |-> shouldWait, waitMs |-> waitMs]

\* the waitMs shouldWaitForCurrentAccount computes for an existing account
currentWaitMs(account, modelId, now) ==
    IF /\ modelId # None
       /\ account.modelRateLimits[modelId[1]] # None
       /\ account.modelRateLimits[modelId[1]][1].isRateLimited
       /\ account.modelRateLimits[modelId[1]][1].resetTime # None
    THEN account.modelRateLimits[modelId[1]][1].resetTime[1] - now
    ELSE 0

\* shouldWaitForCurrentAccount with the threshold itself excluded
shouldWaitBelowThreshold(accounts, currentIndex, modelId, now) ==
    LET index == ClampIndex(accounts, currentIndex)
    IN  IF Len(accounts) = 0 THEN WaitResult(FALSE, 0)
        ELSE IF ~HasAccountAt(accounts, index) THEN WaitResult(FALSE, 0)
        ELSE IF AccountAt(accounts, index).isInvalid THEN WaitResult(FALSE, 0)
        ELSE LET waitMs == currentWaitMs(AccountAt(accounts, index), modelId, now)
             IN  IF waitMs > 0 /\ waitMs < MAX_WAIT_BEFORE_ERROR_MS
                 THEN WaitResult(TRUE, waitMs)
                 ELSE WaitResult(FALSE, 0)

\* selection.ts shouldWaitForCurrentAccount
shouldWaitForCurrentAccount(accounts, currentIndex, modelId, now) ==
    LET index == ClampIndex(accounts, currentIndex)
    IN  IF Len(accounts) = 0 THEN WaitResult(FALSE, 0)
        ELSE IF ~HasAccountAt(accounts, index) THEN WaitResult(FALSE, 0)
        ELSE IF AccountAt(accounts, index).isInvalid THEN WaitResult(FALSE, 0)
        ELSE LET waitMs == currentWaitMs(AccountAt(accounts, index), modelId, now)
             IN  IF waitMs > 0 /\ waitMs <= MAX_WAIT_BEFORE_ERROR_MS
                 THEN WaitResult(TRUE, waitMs)
                 ELSE WaitResult(FALSE, 0)

\* StickyAccountResult { account, waitMs, newIndex } with the accounts as mutated
Sticky(accounts, account, waitMs, newIndex, saved) ==
    [accounts |-> accounts, account |-> account, waitMs |-> waitMs,
     newIndex |-> newIndex, saved |-> saved]

\* selection.ts pickStickyAccount
pickStickyAccount(accounts, currentIndex, modelId, now) ==
    LET sticky == getCurrentStickyAccount(accounts, currentIndex, modelId, now)
        available == getAvailableAccounts(sticky.accounts, modelId, now)
        failover == pickNext(sticky.accounts, currentIndex, modelId, now)
        waitInfo == shouldWaitForCurrentAccount(sticky.accounts, currentIndex, modelId, now)
    IN  IF sticky.account # None
        THEN Sticky(sticky.accounts, sticky.account, 0, sticky.newIndex, TRUE)
        ELSE IF available # {} /\ failover.account # None
        THEN Sticky(failover.accounts, failover.account, 0, failover.newIndex, TRUE)
        ELSE IF waitInfo.shouldWait
        THEN Sticky(sticky.accounts, None, waitInfo.waitMs, currentIndex, FALSE)
        ELSE Sticky(failover.accounts, failover.account, 0, failover.newIndex, failover.saved)

\* cooldownMs that passes over settings.cooldownDurationMs
cooldownIgnoringSettings(resetMs, settings) ==
    Nullish(resetMs, DEFAULT_COOLDOWN_MS)

\* rate-limits.ts markRateLimited: cooldownMs
cooldownMs(resetMs, settings) ==
    Nullish(resetMs, Nullish(settings, DEFAULT_COOLDOWN_MS))

\* accounts.find((a) => a.email === email): the 0-based position, or None
findByEmail(accounts, email) ==
    IF \E i \in 1..Len(accounts) : accounts[i].email = email
    THEN Some(Min({i \in 1..Len(accounts) : accounts[i].email = email}) - 1)
    ELSE None

\* rate-limits.ts markRateLimited
markRateLimited(accounts, email, resetMs, settings, modelId, now) ==
    LET found == findByEmail(accounts, email)
    IN  IF found = None THEN accounts
        ELSE [accounts EXCEPT ![found[1] + 1].modelRateLimits[modelId] =
                Some(Limit(TRUE, Some(now + cooldownMs(resetMs, settings))))]

\* rate-limits.ts markInvalid (the reason string and invalidAt are not modelled)
markInvalid(accounts, email) ==
    LET found == findByEmail(accounts, email)
    IN  IF found = None THEN accounts
        ELSE [accounts EXCEPT ![found[1] + 1].isInvalid = TRUE]

\* rate-limits.ts getMinWaitTimeMs: the waits  resetTime - now > 0  it scans
futureWaits(accounts, modelId, now) ==
    {w \in {currentWaitMs(AccountAt(accounts, i), modelId, now) : i \in 0..(Len(accounts) - 1)} :
        w > 0}

\* getMinWaitTimeMs that keeps the longest wait instead of the shortest
getMaxWaitTimeMs(accounts, modelId, now) ==
    IF ~isAllRateLimited(accounts, modelId, now) THEN 0
    ELSE IF futureWaits(accounts, modelId, now) = {} THEN DEFAULT_COOLDOWN_MS
    ELSE CHOOSE w \in futureWaits(accounts, modelId, now) :
            \A v \in futureWaits(accounts, modelId, now) : v <= w

\* rate-limits.ts getMinWaitTimeMs
getMinWaitTimeMs(accounts, modelId, now) ==
    IF ~isAllRateLimited(accounts, modelId, now) THEN 0
    ELSE IF futureWaits(accounts, modelId, now) = {} THEN DEFAULT_COOLDOWN_MS
    ELSE Min(futureWaits(accounts, modelId, now))

\* ------------------------------------------------------------ the manager
VARIABLES
    accounts,       \* AccountManager.#accounts
    currentIndex,   \* AccountManager.#currentIndex
    settings,       \* AccountManager.#settings.cooldownDurationMs
    initialized,    \* AccountManager.#initialized
    now,            \* Date.now()
    marks,          \* markRateLimited / markInvalid calls made so far
    last,           \* the last call: its arguments, the state it ran in, its result
    configFile,     \* the account configuration file at #configPath
    saves,          \* the saveToDisk() calls in flight
    extras,         \* fields of the file that the loaded accounts / settings carry along
    calls,          \* the pool operations the in-flight requests are inside of
    tokenCache,     \* AccountManager.#tokenCache
    projectCache,   \* AccountManager.#projectCache
    request,        \* the sendMessage / sendMessageStream call in flight
    issued,         \* access tokens the OAuth token endpoint has handed out so far
    stream,         \* the streamSSEResponse generator: its locals, what it has yielded
    signatureCache, \* signature-cache: tool-use id -> thoughtSignature
    openai,         \* the streamToOpenAIFormat generator: its locals, what it has yielded
    accumulated,    \* parseThinkingSSEResponse: its accumulators, its result
    parked          \* the other call in flight, suspended at an await

vars == <<accounts, currentIndex, settings, initialized, now, marks, last,
          configFile, saves, extras, calls,
          tokenCache, projectCache, request, issued, stream,
          signatureCache, openai, accumulated, parked>>

\* the file and the saves in flight
diskVars == <<configFile, saves, extras>>

\* the format converters (the signature cache they share, their generators)
\* and the call that waits while another one runs
formatVars == <<signatureCache, openai, accumulated, parked>>

\* the credential caches, the request being dispatched and its stream
sendVars == <<tokenCache, projectCache, request, issued, stream>>

\* Account as loaded: email, isInvalid, lastUsed, modelRateLimits
Account(email, limits) ==
    [email |-> email, isInvalid |-> FALSE, lastUsed |-> None, modelRateLimits |-> limits]

\* modelRateLimits of the accounts of a configuration file of n accounts:
\* none anywhere (missing or {}), or every account limited for m1 by an
\* earlier run, the account at 0-based position i until MAX_WAIT + i
PersistedLimits(n) ==
    {[i \in 1..n |-> NoLimits],
     [i \in 1..n |-> [NoLimits EXCEPT !["m1"] =
                        Some(Limit(TRUE, Some(MAX_WAIT_BEFORE_ERROR_MS + i - 1)))]]}

\* the account lists a configuration file can hold
PersistedAccounts ==
    UNION {PersistedLimits(n) : n \in 0..MaxAccounts}

\* storage.ts loadAccounts: the accounts, each with isInvalid reset
LoadedAccounts(limits) ==
    [i \in 1..Len(limits) |-> Account(i, limits[i])]

\* storage.ts loadAccounts: activeIndex
LoadedIndex(persisted, length) ==
    LET activeIndex == Nullish(persisted, 0)
    IN  IF activeIndex >= length THEN 0 ELSE activeIndex

\* a call record: the operation, its arguments, its result (account: the
\* 0-based position of the account returned; waitMs: the number returned)
\* and the currentIndex it ran with
Call(op, modelId, email, resetMs, account, waitMs) ==
    [op |-> op, modelId |-> modelId, email |-> email, resetMs |-> resetMs,
     account |-> account, waitMs |-> waitMs, preIndex |-> currentIndex]

Init ==
    /\ accounts = <<>>
    /\ currentIndex = 0
    /\ settings = None
    /\ initialized = FALSE
    /\ now = 0
    /\ marks = 0
    /\ last = [op |-> "new", modelId |-> None, email |-> 0, resetMs |-> None,
               account |-> None, waitMs |-> 0, preIndex |-> 0]
    /\ configFile = None
    /\ saves = <<>>
    /\ extras = [accounts |-> <<>>, settings |-> {}]
    /\ calls = None
    /\ tokenCache = None /\ projectCache = None /\ request = None /\ issued = 0
    /\ stream = None
    /\ signatureCache = None /\ openai = None /\ accumulated = None /\ parked = None

\* AccountConfig as read from the file: accounts (their modelRateLimits),
\* activeIndex, settings.cooldownDurationMs
Config(limits, activeIndex, cooldown) ==
    [limits |-> limits, activeIndex |-> activeIndex, cooldown |-> cooldown]

\* the configuration files initialize() is run on; the file that is absent
\* or unreadable loads as Config(<<>>, None, None)
PersistedConfigs ==
    {Config(l, i, c) : l \in PersistedAccounts, i \in PersistedIndexes, c \in CooldownSettings}

\* configuration files of up to MaxAccounts + 1 accounts, written by a run
\* that left no rate limit behind
RotationConfigs ==
    UNION {{Config([k \in 1..n |-> NoLimits], Some(i), None) : i \in 0..(n - 1)} :
                n \in 1..(MaxAccounts + 1)}

\* AccountManager.initialize: loadAccounts, the database fallback when the
\* file holds no account (dbAccount: whether the database yields one), then
\* clearExpiredLimits
InitializeWith(configs, databases) ==
    /\ ~initialized
    /\ \E config \in configs, dbAccount \in databases :
        LET loaded == LoadedAccounts(config.limits)
            pool == IF Len(loaded) = 0 /\ dbAccount
                    THEN <<Account(1, NoLimits)>> ELSE loaded
        IN  /\ Len(loaded) > 0 => ~dbAccount
            /\ accounts' = clearExpiredLimits(pool, now)
            /\ currentIndex' = LoadedIndex(config.activeIndex, Len(loaded))
            /\ settings' = config.cooldown
            /\ last' = Call("initialize", None, 0, None, config.activeIndex, 0)
    /\ initialized' = TRUE
    /\ UNCHANGED <<now, marks>>

InitializeFrom(configs) == InitializeWith(configs, BOOLEAN)

Initialize == InitializeFrom(PersistedConfigs)

InitializeRotation == InitializeFrom(RotationConfigs)

\* AccountManager.pickStickyAccount
PickSticky ==
    \E modelId \in ModelArgs :
        LET r == pickStickyAccount(accounts, currentIndex, modelId, now)
        IN  /\ accounts' = r.accounts
            /\ currentIndex' = r.newIndex
            /\ last' = Call("pickSticky", modelId, 0, None, r.account, r.waitMs)
            /\ UNCHANGED <<settings, initialized, now, marks>>

\* AccountManager.pickNext
PickNext ==
    \E modelId \in ModelArgs :
        LET r == pickNext(accounts, currentIndex, modelId, now)
        IN  /\ accounts' = r.accounts
            /\ currentIndex' = r.newIndex
            /\ last' = Call("pickNext", modelId, 0, None, r.account, 0)
            /\ UNCHANGED <<settings, initialized, now, marks>>

\* AccountManager.getCurrentStickyAccount
GetCurrentSticky ==
    \E modelId \in ModelArgs :
        LET r == getCurrentStickyAccount(accounts, currentIndex, modelId, now)
        IN  /\ accounts' = r.accounts
            /\ currentIndex' = r.newIndex
            /\ last' = Call("getCurrentSticky", modelId, 0, None, r.account, 0)
            /\ UNCHANGED <<settings, initialized, now, marks>>

\* AccountManager.clearExpiredLimits
ClearExpired ==
    /\ accounts' = clearExpiredLimits(accounts, now)
    /\ last' = Call("clearExpiredLimits", None, 0, None, None,
                    clearedCount(accounts, now))
    /\ UNCHANGED <<currentIndex, settings, initialized, now, marks>>

\* AccountManager.markRateLimited:  if (modelId) { markLimited(...) }
MarkRateLimitedOf(emails) ==
    /\ marks < MaxMarks
    /\ \E email \in emails, resetMs \in ResetArgs, modelId \in ModelArgs :
        /\ accounts' = IF modelId = None THEN accounts
                       ELSE markRateLimited(accounts, email, resetMs, settings, modelId[1], now)
        /\ last' = Call("markRateLimited", modelId, email, resetMs, None, 0)
    /\ marks' = marks + 1
    /\ UNCHANGED <<currentIndex, settings, initialized, now>>

MarkRateLimited == MarkRateLimitedOf(Emails)

MarkRateLimitedRotation == MarkRateLimitedOf(1..(MaxAccounts + 1))

\* AccountManager.markInvalid
MarkInvalidOf(emails) ==
    /\ marks < MaxMarks
    /\ \E email \in emails :
        /\ accounts' = markInvalid(accounts, email)
        /\ last' = Call("markInvalid", None, email, None, None, 0)
    /\ marks' = marks + 1
    /\ UNCHANGED <<currentIndex, settings, initialized, now>>

MarkInvalid == MarkInvalidOf(Emails)

MarkInvalidRotation == MarkInvalidOf(1..(MaxAccounts + 1))

\* the clock advances by one minute
Tick ==
    /\ now < MaxTime
    /\ now' = now + 1
    /\ last' = Call("tick", None, 0, None, None, 0)
    /\ UNCHANGED <<accounts, currentIndex, settings, initialized, marks>>

\* The pool by itself: the file and the saves in flight are left aside.
Next ==
    \/ Initialize /\ UNCHANGED <<diskVars, formatVars, calls, sendVars>>
    \/ PickSticky /\ UNCHANGED <<diskVars, formatVars, calls, sendVars>>
    \/ PickNext /\ UNCHANGED <<diskVars, formatVars, calls, sendVars>>
    \/ GetCurrentSticky /\ UNCHANGED <<diskVars, formatVars, calls, sendVars>>
    \/ ClearExpired /\ UNCHANGED <<diskVars, formatVars, calls, sendVars>>
    \/ MarkRateLimited /\ UNCHANGED <<diskVars, formatVars, calls, sendVars>>
    \/ MarkInvalid /\ UNCHANGED <<diskVars, formatVars, calls, sendVars>>
    \/ Tick /\ UNCHANGED <<diskVars, formatVars, calls, sendVars>>

Spec == Init /\ [][Next]_vars

\* The same manager started on a configuration of up to MaxAccounts + 1
\* accounts with a valid activeIndex: failover has more than one candidate.
NextRotation ==
    \/ InitializeRotation /\ UNCHANGED <<diskVars, formatVars, calls, sendVars>>
    \/ PickSticky /\ UNCHANGED <<diskVars, formatVars, calls, sendVars>>
    \/ PickNext /\ UNCHANGED <<diskVars, formatVars, calls, sendVars>>
    \/ GetCurrentSticky /\ UNCHANGED <<diskVars, formatVars, calls, sendVars>>
    \/ ClearExpired /\ UNCHANGED <<diskVars, formatVars, calls, sendVars>>
    \/ MarkRateLimitedRotation /\ UNCHANGED <<diskVars, formatVars, calls, sendVars>>
    \/ MarkInvalidRotation /\ UNCHANGED <<diskVars, formatVars, calls, sendVars>>
    \/ Tick /\ UNCHANGED <<diskVars, formatVars, calls, sendVars>>

SpecRotation == Init /\ [][NextRotation]_vars

\* ---------------------------------------------------- the configuration file
\* Largest number of saveToDisk() calls in flight at once.
MaxSaves == 2
\* Largest number of them that have reached writeFile at once.
MaxWrites == 1

\* names of fields the manager does not know: at the top level of the file,
\* inside an account record, inside settings
UnknownTop == {"version"}
UnknownInAccount == {"label"}
UnknownInSettings == {"theme"}

\* one account record of the file: the fields of the pool's accounts and the
\* names of the further fields it holds
FileAccount(account, extra) ==
    [email |-> account.email, isInvalid |-> account.isInvalid,
     lastUsed |-> account.lastUsed, modelRateLimits |-> account.modelRateLimits,
     extra |-> extra]

\* AccountConfig as JSON text: accounts, settings (cooldownDurationMs and the
\* names of its further fields), activeIndex, and the names of the further
\* top-level fields
File(fileAccounts, cooldown, settingsExtra, activeIndex, top) ==
    [accounts |-> fileAccounts, cooldown |-> cooldown, settingsExtra |-> settingsExtra,
     activeIndex |-> activeIndex, top |-> top]

\* storage.ts saveAccounts: the config object handed to JSON.stringify.  Each
\* account is rebuilt from an explicit list of fields, settings is written
\* whole, and the object has the three keys accounts, settings, activeIndex.
saveAccounts(pool, poolExtras, cooldown, activeIndex) ==
    File([i \in 1..Len(pool) |-> FileAccount(pool[i], {})],
         cooldown, poolExtras.settings, Some(activeIndex), {})

\* storage.ts loadAccounts: what the spread  ...acc  and  config.settings
\* carry into memory beside the fields modelled in accounts / settings
LoadedExtras(file) ==
    [accounts |-> [i \in 1..Len(file.accounts) |-> file.accounts[i].extra],
     settings |-> file.settingsExtra]

\* the Config that loadAccounts parses out of the file
ConfigOf(file) ==
    Config([i \in 1..Len(file.accounts) |-> file.accounts[i].modelRateLimits],
           file.activeIndex, file.cooldown)

\* a saveToDisk() call in flight: saveAccounts received activeIndex by value
\* when it was called and awaits mkdir; after mkdir it builds the config from
\* the accounts and settings as they are then, and awaits writeFile
Save(stage, activeIndex, config) ==
    [stage |-> stage, activeIndex |-> activeIndex, config |-> config]

\* void this.saveToDisk(), if the operation calls it, with #currentIndex as it
\* is at the call
ScheduleSave(called, activeIndex) ==
    /\ called => Len(saves) < MaxSaves
    /\ saves' = IF called THEN Append(saves, Save("mkdir", activeIndex, None)) ELSE saves
    /\ UNCHANGED <<configFile, extras, formatVars, calls, sendVars>>

RemoveAt(seq, i) == SubSeq(seq, 1, i - 1) \o SubSeq(seq, i + 1, Len(seq))

\* modelRateLimits of an account limited for m1 beyond the max-wait threshold
LimitedForM1 ==
    [NoLimits EXCEPT !["m1"] = Some(Limit(TRUE, Some(MAX_WAIT_BEFORE_ERROR_MS + 1)))]

\* the file the manager is started on: written by an earlier run that left
\* the first account active and rate-limited for m1, and holding fields the
\* manager does not know
PersistedFiles ==
    {File([i \in 1..MaxAccounts |->
                FileAccount(Account(i, IF i = 1 THEN LimitedForM1 ELSE NoLimits),
                            UnknownInAccount)],
          None, UnknownInSettings, Some(0), UnknownTop)}

InitSave ==
    /\ accounts = <<>>
    /\ currentIndex = 0
    /\ settings = None
    /\ initialized = FALSE
    /\ now = 0
    /\ marks = 0
    /\ last = [op |-> "new", modelId |-> None, email |-> 0, resetMs |-> None,
               account |-> None, waitMs |-> 0, preIndex |-> 0]
    /\ configFile \in {Some(f) : f \in PersistedFiles}
    /\ saves = <<>>
    /\ extras = [accounts |-> <<>>, settings |-> {}]
    /\ calls = None
    /\ tokenCache = None /\ projectCache = None /\ request = None /\ issued = 0
    /\ stream = None
    /\ signatureCache = None /\ openai = None /\ accumulated = None /\ parked = None

\* AccountManager.initialize on the file: its clearExpiredLimits() saves when
\* it cleared something, #currentIndex being assigned by then
InitializeSave ==
    /\ InitializeFrom({ConfigOf(configFile[1])})
    /\ extras' = LoadedExtras(configFile[1])
    /\ saves' = IF clearedCount(LoadedAccounts(ConfigOf(configFile[1]).limits), now) > 0
                THEN Append(saves, Save("mkdir", currentIndex', None)) ELSE saves
    /\ UNCHANGED <<configFile, formatVars, calls, sendVars>>

\* rate-limits.ts resetAllRateLimits
resetAllRateLimits(pool) ==
    [i \in 1..Len(pool) |->
        [pool[i] EXCEPT !.modelRateLimits =
            [m \in Models |-> IF pool[i].modelRateLimits[m] = None THEN None
                              ELSE Some(Limit(FALSE, None))]]]

\* AccountManager.resetAllRateLimits
ResetAllRateLimits ==
    /\ accounts' = resetAllRateLimits(accounts)
    /\ last' = Call("resetAllRateLimits", None, 0, None, None, 0)
    /\ UNCHANGED <<currentIndex, settings, initialized, now, marks>>

\* saveAccounts after  await mkdir : the config is built and stringified
SaveBuild ==
    \E i \in 1..Len(saves) :
        /\ saves[i].stage = "mkdir"
        /\ Cardinality({j \in 1..Len(saves) : saves[j].stage = "write"}) < MaxWrites
        /\ saves' = [saves EXCEPT ![i] =
                        Save("write", saves[i].activeIndex,
                             Some(saveAccounts(accounts, extras, settings, saves[i].activeIndex)))]
        /\ last' = Call("save", None, 0, None, None, 0)
        /\ UNCHANGED <<accounts, currentIndex, settings, initialized, now, marks,
                       configFile, extras, formatVars, calls, sendVars>>

\* saveAccounts after  await writeFile : the file holds the config
SaveWrite ==
    \E i \in 1..Len(saves) :
        /\ saves[i].stage = "write"
        /\ configFile' = saves[i].config
        /\ saves' = RemoveAt(saves, i)
        /\ last' = Call("save", None, 0, None, None, 0)
        /\ UNCHANGED <<accounts, currentIndex, settings, initialized, now, marks, extras,
                       formatVars, calls, sendVars>>

\* The manager with its configuration file: every operation with the
\* saveToDisk() call it makes, and the saves proceeding in the background,
\* followed at one reading of the clock (a rate limit marked with resetMs 0
\* is expired at once).
NextSave ==
    \/ InitializeSave
    \/ PickSticky
        /\ ScheduleSave(pickStickyAccount(accounts, currentIndex, last'.modelId, now).saved,
                        currentIndex)
    \/ PickNext
        /\ ScheduleSave(pickNext(accounts, currentIndex, last'.modelId, now).saved,
                        currentIndex)
    \/ GetCurrentSticky
        /\ ScheduleSave(getCurrentStickyAccount(accounts, currentIndex, last'.modelId, now).saved,
                        currentIndex)
    \/ ClearExpired /\ ScheduleSave(clearedCount(accounts, now) > 0, currentIndex)
    \/ MarkRateLimited /\ ScheduleSave(last'.modelId # None, currentIndex)
    \/ MarkInvalid /\ ScheduleSave(TRUE, currentIndex)
    \/ ResetAllRateLimits /\ ScheduleSave(FALSE, currentIndex)
    \/ SaveBuild
    \/ SaveWrite

SpecSave == InitSave /\ [][NextSave]_vars

\* ------------------------------------------------- requests in flight
\* Number of client requests in flight at once.
MaxRequests == 2

Requests == 1..MaxRequests

\* the pool operations a request handler calls
PoolOps ==
    {"pickSticky", "pickNext", "getCurrentSticky", "markRateLimited", "markInvalid",
     "clearExpiredLimits"}

\* a pool operation with an  await  between its read of the pool and the
\* assignment of #currentIndex
suspendsInsideSelection(op) == op \in {"pickSticky", "pickNext", "getCurrentSticky"}

\* Whether the body of a pool operation holds a suspension point (an await):
\* AccountManager's methods and the functions of selection.ts and
\* rate-limits.ts they call are synchronous, and the saves they trigger are
\* started with  void  and not awaited.
suspendsInside(op) == FALSE

\* a request that is not inside a pool operation
Idle == [pc |-> "idle", op |-> "", modelId |-> None, email |-> 0, resetMs |-> None,
         seenAccounts |-> <<>>, seenIndex |-> 0]

\* a request inside a pool operation, with the state the operation read when
\* it was entered
Inside(op, modelId, email, resetMs) ==
    [pc |-> "called", op |-> op, modelId |-> modelId, email |-> email, resetMs |-> resetMs,
     seenAccounts |-> accounts, seenIndex |-> currentIndex]

\* the arguments a pool operation is called with
CallArgs(op) ==
    IF op = "markRateLimited"
        THEN {<<modelId, email, resetMs>> :
                modelId \in ModelArgs, email \in Emails, resetMs \in ResetArgs}
    ELSE IF op = "markInvalid" THEN {<<None, email, None>> : email \in Emails}
    ELSE IF op = "clearExpiredLimits" THEN {<<None, 0, None>>}
    ELSE {<<modelId, 0, None>> : modelId \in ModelArgs}

InitCalls ==
    /\ accounts = <<>>
    /\ currentIndex = 0
    /\ settings = None
    /\ initialized = FALSE
    /\ now = 0
    /\ marks = 0
    /\ last = [op |-> "new", modelId |-> None, email |-> 0, resetMs |-> None,
               account |-> None, waitMs |-> 0, preIndex |-> 0]
    /\ configFile = None
    /\ saves = <<>>
    /\ extras = [accounts |-> <<>>, settings |-> {}]
    /\ calls = [of |-> [r \in Requests |-> Idle], running |-> None]
    /\ tokenCache = None /\ projectCache = None /\ request = None /\ issued = 0
    /\ stream = None
    /\ signatureCache = None /\ openai = None /\ accumulated = None /\ parked = None

\* the configuration the requests run on: MaxAccounts accounts, the first
\* one active, no rate limit left behind
InitializeCalls ==
    /\ InitializeFrom({Config([k \in 1..MaxAccounts |-> NoLimits], Some(0), None)})
    /\ UNCHANGED <<diskVars, formatVars, calls, sendVars>>

\* A request handler, running on the event loop, enters a pool operation: it
\* reads the pool, and keeps the event loop unless the operation suspends.
EnterCall(r) ==
    /\ initialized
    /\ calls.running = None
    /\ calls.of[r].pc = "idle"
    /\ \E op \in PoolOps : \E args \in CallArgs(op) :
        /\ op \in {"markRateLimited", "markInvalid"} => marks < MaxMarks
        /\ calls' = [of |-> [calls.of EXCEPT ![r] = Inside(op, args[1], args[2], args[3])],
                     running |-> IF suspendsInside(op) THEN None ELSE Some(r)]
        /\ last' = Call("enter", args[1], args[2], args[3], None, 0)
    /\ UNCHANGED <<accounts, currentIndex, settings, initialized, now, marks, diskVars, formatVars, sendVars>>

\* The operation a request is inside of runs to its end and writes the pool.
LeaveCall(r) ==
    /\ calls.of[r].pc = "called"
    /\ calls.running \in {None, Some(r)}
    /\ \/ calls.of[r].op = "pickSticky" /\ PickSticky
       \/ calls.of[r].op = "pickNext" /\ PickNext
       \/ calls.of[r].op = "getCurrentSticky" /\ GetCurrentSticky
       \/ calls.of[r].op = "markRateLimited" /\ MarkRateLimited
       \/ calls.of[r].op = "markInvalid" /\ MarkInvalid
       \/ calls.of[r].op = "clearExpiredLimits" /\ ClearExpired
    /\ last'.modelId = calls.of[r].modelId
    /\ last'.email = calls.of[r].email
    /\ last'.resetMs = calls.of[r].resetMs
    /\ calls' = [of |-> [calls.of EXCEPT ![r] = Idle], running |-> None]
    /\ UNCHANGED <<diskVars, formatVars, sendVars>>

\* Several requests in flight on the one event loop of the process.
NextCalls ==
    \/ InitializeCalls
    \/ \E r \in Requests : EnterCall(r)
    \/ \E r \in Requests : LeaveCall(r)
    \/ Tick /\ UNCHANGED <<diskVars, formatVars, calls, sendVars>>

SpecCalls == InitCalls /\ [][NextCalls]_vars

\* ------------------------------------------------- the credential broker
\* Access tokens the OAuth token endpoint hands out in one run.
MaxIssued == 2

\* constants.js: a cached token is reused while it is younger than this
\* (minutes)
TOKEN_REFRESH_INTERVAL_MS == 5

\* An error message is the set of the marks it contains: what the code
\* looks for with includes() and with the is...Error() predicates.
Thrown(message) == [threw |-> TRUE, message |-> message, value |-> None]
Returned(value) == [threw |-> FALSE, message |-> {}, value |-> value]

\* what fetch() rejects with when there is no HTTP answer: DNS failure,
\* connection refused, connection reset, timeout
NetworkFailures == {"ENOTFOUND", "ECONNREFUSED", "ECONNRESET", "ETIMEDOUT"}

\* utils/helpers.js isNetworkError
isNetworkError(message) == message \cap NetworkFailures # {}

\* An answer of the token endpoint: no answer at all (fetch rejects), or a
\* status and a body; a body is text, unparseable text, or a JSON object
\* with or without access_token.
TokenAnswer(kind, status, text, access_token) ==
    [kind |-> kind, status |-> status, text |-> text, access_token |-> access_token]

TokenAnswers ==
    {TokenAnswer("rejects", 0, w, None) : w \in NetworkFailures}
    \cup {TokenAnswer("text", 400, "invalid_grant", None),
          TokenAnswer("text", 503, "unavailable", None),
          TokenAnswer("text", 200, "not json", None),
          TokenAnswer("json", 200, "", None),
          TokenAnswer("json", 200, "", Some(issued + 1))}

\* oauth.ts refreshAccessToken: the new access token, or the error thrown
refreshAccessToken(answer) ==
    IF answer.kind = "rejects" THEN Thrown({answer.text})
    ELSE IF answer.status \notin 200..299
         THEN Thrown({"Token refresh failed", answer.text})
    ELSE IF answer.kind # "json" THEN Thrown({"SyntaxError"})
    ELSE Returned(answer.access_token)

\* a token cache entry
CacheEntry(token, extractedAt) == [token |-> token, extractedAt |-> extractedAt]

\* credentials.ts getTokenForAccount for an OAuth account with a refresh
\* token: what it returns or throws, the token cache afterwards, whether
\* onInvalid was called, whether the account's isInvalid was cleared (and
\* onSave called)
TokenResult(result, cache, onInvalid, cleared, fetched) ==
    [result |-> result, tokenCache |-> cache, onInvalid |-> onInvalid,
     cleared |-> cleared, fetched |-> fetched]

getTokenForAccount(account, cache, answer, time) ==
    IF /\ cache[account.email] # None
       /\ time - cache[account.email][1].extractedAt < TOKEN_REFRESH_INTERVAL_MS
    THEN TokenResult(Returned(cache[account.email][1].token), cache, FALSE, FALSE, FALSE)
    ELSE LET tokens == refreshAccessToken(answer)
         IN  IF ~tokens.threw
             THEN TokenResult(Returned(tokens.value),
                              [cache EXCEPT ![account.email] =
                                  Some(CacheEntry(tokens.value, time))],
                              FALSE, account.isInvalid, TRUE)
             ELSE IF isNetworkError(tokens.message)
             THEN TokenResult(Thrown({"AUTH_NETWORK_ERROR"} \cup tokens.message),
                              cache, FALSE, FALSE, TRUE)
             ELSE TokenResult(Thrown({"AUTH_INVALID"} \cup tokens.message),
                              cache, TRUE, FALSE, TRUE)

\* credentials.ts getProjectForAccount: discoverProject never throws, the
\* project (discovered or the default one) is cached
getProjectForAccount(account, cache) == [cache EXCEPT ![account.email] = TRUE]

\* credentials.ts clearTokenCache / clearProjectCache for one email
clearTokenCache(cache, email) == [cache EXCEPT ![email] = None]
clearProjectCache(cache, email) == [cache EXCEPT ![email] = FALSE]

\* ------------------------------------------------------ the SSE translator
\* streamSSEResponse, on the upstream body as a sequence of "data:" lines.
\* A line is text that JSON.parse rejects, or an object with its parts and
\* its finishReason; usage counts, ids and text contents are not modelled.

\* data: lines read from one upstream body.
MaxEvents == 2

\* Parts of one upstream event.
MaxParts == 2

\* constants.js: a thoughtSignature shorter than this is ignored
MIN_SIGNATURE_LENGTH == 2

\* A part as JSON.parse returns it: null, or an object with or without a
\* truthy thought, a text (None: no such key), a functionCall ("absent",
\* "null": the key with the value null, "call": an object) and a
\* thoughtSignature of some length (0: none).
Part(thought, text, functionCall, thoughtSignature) ==
    [isNull |-> FALSE, thought |-> thought, text |-> text,
     functionCall |-> functionCall, thoughtSignature |-> thoughtSignature]

NullPart ==
    [isNull |-> TRUE, thought |-> FALSE, text |-> None,
     functionCall |-> "absent", thoughtSignature |-> 0]

Parts ==
    {Part(TRUE, Some("x"), "absent", n) : n \in {0, MIN_SIGNATURE_LENGTH}}
    \cup {Part(FALSE, Some(t), "absent", 0) : t \in {"x", ""}}
    \cup {Part(FALSE, None, c, 0) : c \in {"call", "null"}}
    \cup {NullPart}

\* candidates[0].finishReason (None: absent)
FinishReasons == {None, Some("STOP"), Some("MAX_TOKENS"), Some("OTHER")}

\* the lists of at most MaxParts parts
PartLists == UNION {[1..n -> Parts] : n \in 0..MaxParts}

\* a data: line: json = FALSE when JSON.parse throws
Event(json, parts, finishReason) ==
    [json |-> json, parts |-> parts, finishReason |-> finishReason]

Events ==
    {Event(FALSE, <<>>, None)}
    \cup {Event(TRUE, parts, f) : parts \in PartLists, f \in FinishReasons}

\* the events yielded: type, block index, and the kind of block or delta
\* (for message_delta: the stop_reason); a delta carries its text or its
\* signature
Yielded(type, index, kind) ==
    [type |-> type, index |-> index, kind |-> kind, text |-> "", signature |-> 0]

\* { type: "content_block_delta", index, delta: { type: kind, text | thinking } }
YieldedText(index, kind, text) ==
    [Yielded("content_block_delta", index, kind) EXCEPT !.text = text]

\* { type: "content_block_delta", index, delta: { type: "signature_delta", signature } }
YieldedSignature(index, signature) ==
    [Yielded("content_block_delta", index, "signature_delta")
        EXCEPT !.signature = signature]

\* text.trim() on the texts of the model
trim(text) == IF text = " " THEN "" ELSE text

\* yield ev
Yield(st, ev) == [st EXCEPT !.out = Append(@, ev)]

\* the generator before it is called: its locals, the reader of the body, the
\* data: lines read from the body and the events yielded to the consumer
ClosedStream ==
    [pc |-> "closed", hasEmittedStart |-> FALSE, blockIndex |-> 0,
     currentBlockType |-> None, currentThinkingSignature |-> 0,
     stopReason |-> "end_turn", reader |-> "none", lines |-> <<>>, out |-> <<>>]

\* streamSSEResponse called on a response: the locals, response.body.getReader();
\* what the consumer has received so far stays
OpenedStream(st) ==
    [ClosedStream EXCEPT !.pc = "reading", !.reader = "locked", !.out = st.out]

\* if (currentBlockType === "thinking" && currentThinkingSignature) yield signature_delta
WithSignature(st) ==
    IF st.currentBlockType = Some("thinking") /\ st.currentThinkingSignature # 0
    THEN [Yield(st, YieldedSignature(st.blockIndex, st.currentThinkingSignature))
            EXCEPT !.currentThinkingSignature = 0]
    ELSE st

\* if (currentBlockType !== null) { yield content_block_stop; blockIndex++ }
WithBlockClosed(st) ==
    IF st.currentBlockType # None
    THEN [Yield(st, Yielded("content_block_stop", st.blockIndex, ""))
            EXCEPT !.blockIndex = @ + 1]
    ELSE st

\* the result of the code for one part: the locals, and whether it threw
Processed(st, threw) == [st |-> st, threw |-> threw]

\* the thought branch without its opening of a thinking block
thoughtPartUnopened(st, part) ==
    Yield(st, YieldedText(st.blockIndex, "thinking_delta", part.text[1]))

\* the thought branch
thoughtPart(st, part) ==
    LET opened ==
            IF st.currentBlockType # Some("thinking")
            THEN LET closed == WithBlockClosed(st)
                 IN  Yield([closed EXCEPT !.currentBlockType = Some("thinking"),
                                          !.currentThinkingSignature = 0],
                           Yielded("content_block_start", closed.blockIndex, "thinking"))
            ELSE st
        signed ==
            IF part.thoughtSignature # 0 /\ part.thoughtSignature >= MIN_SIGNATURE_LENGTH
            THEN [opened EXCEPT !.currentThinkingSignature = part.thoughtSignature]
            ELSE opened
    IN  Yield(signed, YieldedText(signed.blockIndex, "thinking_delta", part.text[1]))

\* the text branch, for a text that is not empty
textPart(st, part) ==
    LET opened ==
            IF st.currentBlockType # Some("text")
            THEN LET closed == WithBlockClosed(WithSignature(st))
                 IN  Yield([closed EXCEPT !.currentBlockType = Some("text")],
                           Yielded("content_block_start", closed.blockIndex, "text"))
            ELSE st
    IN  Yield(opened, YieldedText(opened.blockIndex, "text_delta", part.text[1]))

\* the functionCall branch: part.functionCall.id throws on null, after the
\* open block was closed and currentBlockType and stopReason were set
functionCallPart(st, part) ==
    LET closed == WithBlockClosed(WithSignature(st))
        tool == [closed EXCEPT !.currentBlockType = Some("tool_use"),
                               !.stopReason = "tool_use"]
    IN  IF part.functionCall = "null" THEN Processed(tool, TRUE)
        ELSE Processed(
                Yield(Yield(tool, Yielded("content_block_start", tool.blockIndex, "tool_use")),
                      Yielded("content_block_delta", tool.blockIndex, "input_json_delta")),
                FALSE)

\* the body of  for (const part of parts)
processPart(st, part) ==
    IF part.isNull THEN Processed(st, TRUE)
    ELSE IF part.thought /\ part.text # None
    THEN Processed(thoughtPart(st, part), FALSE)
    ELSE IF part.text # None /\ ~part.thought
    THEN IF trim(part.text[1]) = "" THEN Processed(st, FALSE)
         ELSE Processed(textPart(st, part), FALSE)
    ELSE IF part.functionCall # "absent"
    THEN functionCallPart(st, part)
    ELSE Processed(st, FALSE)

\* for (const part of parts) { ... }, left at the first part that throws
RECURSIVE processParts(_, _)
processParts(st, parts) ==
    IF parts = <<>> THEN Processed(st, FALSE)
    ELSE LET first == processPart(st, Head(parts))
         IN  IF first.threw THEN first
             ELSE processParts(first.st, Tail(parts))

\* if (firstCandidate?.finishReason) { ... }
withFinishReason(st, finishReason) ==
    IF finishReason = Some("MAX_TOKENS") THEN [st EXCEPT !.stopReason = "max_tokens"]
    ELSE IF finishReason = Some("STOP") THEN [st EXCEPT !.stopReason = "end_turn"]
    ELSE st

\* the try { ... } catch (parseError) { } for one data: line
processLine(st, event) ==
    IF ~event.json THEN st
    ELSE LET started ==
                IF ~st.hasEmittedStart /\ Len(event.parts) > 0
                THEN Yield([st EXCEPT !.hasEmittedStart = TRUE],
                           Yielded("message_start", 0, ""))
                ELSE st
             done == processParts(started, event.parts)
         IN  IF done.threw THEN done.st
             ELSE withFinishReason(done.st, event.finishReason)

\* after the read loop: the empty message or the open block closed, then
\* message_delta and message_stop
finishStream(st) ==
    LET closed ==
            IF ~st.hasEmittedStart
            THEN Yield(Yield(Yield(Yield(st,
                    Yielded("message_start", 0, "")),
                    Yielded("content_block_start", 0, "text")),
                    YieldedText(0, "text_delta", "[No response received from API]")),
                    Yielded("content_block_stop", 0, ""))
            ELSE IF st.currentBlockType # None
            THEN LET signed ==
                        IF st.currentBlockType = Some("thinking")
                           /\ st.currentThinkingSignature # 0
                        THEN Yield(st, YieldedSignature(st.blockIndex,
                                                        st.currentThinkingSignature))
                        ELSE st
                 IN  Yield(signed, Yielded("content_block_stop", signed.blockIndex, ""))
            ELSE st
    IN  [Yield(Yield(closed, Yielded("message_delta", 0, closed.stopReason)),
               Yielded("message_stop", 0, ""))
            EXCEPT !.pc = "done"]

\* what every step of the translator by itself leaves alone
StreamFrame ==
    UNCHANGED <<accounts, currentIndex, settings, initialized, now, marks,
                diskVars, formatVars, calls, tokenCache, projectCache, request, issued>>

\* a record of a step of the generator
StreamCall(op, event) ==
    [op |-> op, modelId |-> None, email |-> 0, resetMs |-> None,
     account |-> None, waitMs |-> 0, preIndex |-> currentIndex, event |-> event]

\* streamSSEResponse(response, model) is called
OpenStream ==
    /\ stream.pc = "closed"
    /\ stream' = OpenedStream(stream)
    /\ last' = StreamCall("open", None)

\* reader.read() yields a chunk with one data: line
ReadLineFrom(events) ==
    /\ stream.pc = "reading"
    /\ Len(stream.lines) < MaxEvents
    /\ \E event \in events :
        /\ stream' = [processLine(stream, event) EXCEPT !.lines = Append(@, event)]
        /\ last' = StreamCall("read", Some(event))

ReadLine == ReadLineFrom(Events)

\* reader.read() reports done
EndOfBody ==
    /\ stream.pc = "reading"
    /\ stream' = finishStream(stream)
    /\ last' = StreamCall("end", None)

InitStream ==
    /\ accounts = <<>>
    /\ currentIndex = 0
    /\ settings = None
    /\ initialized = FALSE
    /\ now = 0
    /\ marks = 0
    /\ last = [op |-> "new", modelId |-> None, email |-> 0, resetMs |-> None,
               account |-> None, waitMs |-> 0, preIndex |-> 0]
    /\ configFile = None
    /\ saves = <<>>
    /\ extras = [accounts |-> <<>>, settings |-> {}]
    /\ calls = None
    /\ tokenCache = None /\ projectCache = None /\ request = None /\ issued = 0
    /\ stream = ClosedStream
    /\ signatureCache = None /\ openai = None /\ accumulated = None /\ parked = None

\* The translator on one upstream body that is read to its end.
NextStream ==
    \/ OpenStream /\ StreamFrame
    \/ ReadLine /\ StreamFrame
    \/ EndOfBody /\ StreamFrame

SpecStream == InitStream /\ [][NextStream]_vars

\* ------------------------------------------------- the upstream dispatcher
\* sendMessage and sendMessageStream share the retry loop that follows; what
\* differs (the URL, the reading of a 200 answer) is not modelled.  Requests
\* are sent with fallbackEnabled = false, one after the other.

\* Requests sent in one run.
MaxSends == 2

\* constants.js: the configured number of retries
MAX_RETRIES == 2

\* constants.js: the ordered upstream endpoint list
ANTIGRAVITY_ENDPOINT_FALLBACKS == <<"daily", "prod">>

\* the model of the requests
SendModel == "m1"

\* errors.js isRateLimitError, isAuthError
isRateLimitError(message) == "Rate limited" \in message
isAuthError(message) == "AUTH_INVALID" \in message

\* new Error(`API error ${status}: ${errorText}`)
ApiError(status) ==
    {IF status >= 500 THEN "API error 5" ELSE "API error 4"}
    \cup (IF status = 500 THEN {"500"} ELSE {})
    \cup (IF status = 503 THEN {"503"} ELSE {})

\* err.message.includes("API error 5") || includes("500") || includes("503")
isSoftFailure(message) == message \cap {"API error 5", "500", "503"} # {}

\* the reset times parseResetTime reads from a 429 answer (minutes), None
\* when the answer carries none
ParsedResets == {None, Some(DEFAULT_COOLDOWN_MS), Some(MAX_WAIT_BEFORE_ERROR_MS + 1)}

\* An answer of an upstream endpoint to a POST: none (fetch rejects), or a
\* status; a 429 carries a reset time or none.
UpstreamAnswer(status, resetMs, text) == [status |-> status, resetMs |-> resetMs, text |-> text]

UpstreamAnswers ==
    {UpstreamAnswer(0, None, "ECONNRESET")}
    \cup {UpstreamAnswer(s, None, "") : s \in {200, 400, 401, 503}}
    \cup {UpstreamAnswer(429, r, "") : r \in ParsedResets}

\* lastError: { is429: true, resetMs } or an Error
RateLimitErrorInfo(resetMs) == [is429 |-> TRUE, resetMs |-> resetMs, message |-> {}]
ErrorOf(message) == [is429 |-> FALSE, resetMs |-> None, message |-> message]

\* Math.max(MAX_RETRIES, accountManager.getAccountCount() + 1)
maxAttempts ==
    IF MAX_RETRIES >= Len(accounts) + 1 THEN MAX_RETRIES ELSE Len(accounts) + 1

\* fallback-config.js getFallbackModel: the model configured as the fallback
\* of a model, None when there is none
getFallbackModel(model) ==
    IF model = "m1" THEN Some("m2")
    ELSE IF model = "m2" THEN Some("m1")
    ELSE None

\* a call of sendMessage (streaming = FALSE) or sendMessageStream (TRUE) at
\* the head of its retry loop with attempt = 0: its arguments, the depth of
\* the recursion it runs at, the locals of the turn, and once it has ended
\* what it returned or threw (resetTime: the time a RESOURCE_EXHAUSTED
\* message names)
NewCall(id, model, streaming, fallbackEnabled, depth) ==
    [id |-> id, pc |-> "attempt", model |-> model, streaming |-> streaming,
     fallbackEnabled |-> fallbackEnabled, depth |-> depth, attempt |-> 0,
     account |-> 0, token |-> None, endpoint |-> 0, lastError |-> None,
     posts |-> <<>>, wakeAt |-> 0, resetTime |-> 0, result |-> {}]

\* sendMessage(request of SendModel, accountManager) as the callers of the
\* dispatcher without fallback call it
NewRequest(id) == NewCall(id, SendModel, FALSE, FALSE, 0)

\* the same call with the locals of its turn gone
Fresh(req) == NewCall(req.id, req.model, req.streaming, req.fallbackEnabled, req.depth)

\* the request ends: it returns ({"ok"}) or throws the message; the locals
\* of the call are gone
Finish(req, result) ==
    [Fresh(req) EXCEPT !.pc = "done", !.result = result]

\* a retry loop whose counter stays where it is
NextAttemptSameTurn(req) == Fresh(req)

\* for (...; attempt++): the next turn of the retry loop; the locals of the
\* turn that ends (account, token, lastError) are gone
NextAttempt(req) ==
    [Fresh(req) EXCEPT !.attempt = req.attempt + 1]

\* an account was selected: on to  try { getTokenForAccount ... }
Selected(req, position) ==
    [req EXCEPT !.pc = "token", !.account = position + 1, !.token = None,
                !.endpoint = 0, !.lastError = None, !.posts = <<>>]

\* the call record of a step of the dispatcher: the account it works for,
\* the answer it got from the token endpoint or from upstream, and what
\* getTokenForAccount did
SendCall(op, email, answer, auth, posts) ==
    [op |-> op, modelId |-> Some(request.model), email |-> email, resetMs |-> None,
     account |-> None, waitMs |-> 0, preIndex |-> currentIndex,
     answer |-> answer, auth |-> auth, posts |-> posts, attempt |-> request.attempt]

InitSend ==
    /\ accounts = <<>>
    /\ currentIndex = 0
    /\ settings = None
    /\ initialized = FALSE
    /\ now = 0
    /\ marks = 0
    /\ last = [op |-> "new", modelId |-> None, email |-> 0, resetMs |-> None,
               account |-> None, waitMs |-> 0, preIndex |-> 0]
    /\ configFile = None
    /\ saves = <<>>
    /\ extras = [accounts |-> <<>>, settings |-> {}]
    /\ calls = None
    /\ tokenCache = [e \in Emails |-> None]
    /\ projectCache = [e \in Emails |-> FALSE]
    /\ request = [NewRequest(0) EXCEPT !.pc = "idle"]
    /\ issued = 0
    /\ stream = ClosedStream
    /\ signatureCache = None /\ openai = None /\ accumulated = None /\ parked = None

\* the configuration the requests run on: MaxAccounts OAuth accounts, the
\* first one active, no rate limit left behind
InitializeSend ==
    /\ InitializeFrom({Config([k \in 1..MaxAccounts |-> NoLimits], Some(0), None)})
    /\ UNCHANGED <<diskVars, formatVars, calls, sendVars>>

\* a client request arrives: sendMessage / sendMessageStream is called with
\* a model and fallbackEnabled; its consumer has received nothing yet
SendWith(models, streamings, fallbacks) ==
    /\ initialized
    /\ request.pc \in {"idle", "done"}
    /\ request.id < MaxSends
    /\ \E model \in models, streaming \in streamings, fallbackEnabled \in fallbacks :
        request' = NewCall(request.id + 1, model, streaming, fallbackEnabled, 0)
    /\ stream' = ClosedStream
    /\ last' = SendCall("send", 0, None, None, <<>>)
    /\ UNCHANGED <<accounts, currentIndex, settings, initialized, now, marks,
                   diskVars, formatVars, calls, tokenCache, projectCache, issued>>

Send == SendWith({SendModel}, {FALSE}, {FALSE})

\* the recursive call for the fallback model with fallback left enabled
NoAccountChaining(req) ==
    IF req.fallbackEnabled /\ getFallbackModel(req.model) # None
    THEN NewCall(req.id, getFallbackModel(req.model)[1], req.streaming, TRUE,
                 req.depth + 1)
    ELSE Finish(req, {"No accounts available"})

\* if (!account) after the selection and the sleeps: the recursive call for
\* the fallback model, whose outcome is the outcome of this call, or the throw
NoAccount(req) ==
    IF req.fallbackEnabled /\ getFallbackModel(req.model) # None
    THEN NewCall(req.id, getFallbackModel(req.model)[1], req.streaming, FALSE,
                 req.depth + 1)
    ELSE Finish(req, {"No accounts available"})

\* the if (isAllRateLimited) block with a sleep whatever the wait is
WithoutAccountWaiting(pool, index, req) ==
    /\ accounts' = pool
    /\ currentIndex' = index
    /\ IF isAllRateLimited(pool, Some(req.model), now)
       THEN request' = [req EXCEPT !.pc = "sleepAll",
                           !.wakeAt = now + getMinWaitTimeMs(pool, Some(req.model), now)]
       ELSE request' = NoAccount(req)

\* the same with the fallback model consulted before the rate limits
WithoutAccountFallbackFirst(pool, index, req) ==
    /\ accounts' = pool
    /\ currentIndex' = index
    /\ IF req.fallbackEnabled /\ getFallbackModel(req.model) # None
       THEN request' = NoAccount(req)
       ELSE IF isAllRateLimited(pool, Some(req.model), now)
       THEN IF getMinWaitTimeMs(pool, Some(req.model), now) > MAX_WAIT_BEFORE_ERROR_MS
            THEN request' = [Finish(req, {"RESOURCE_EXHAUSTED"}) EXCEPT
                                !.resetTime = now + getMinWaitTimeMs(pool, Some(req.model), now)]
            ELSE request' = [req EXCEPT !.pc = "sleepAll",
                                !.wakeAt = now + getMinWaitTimeMs(pool, Some(req.model), now)]
       ELSE request' = NoAccount(req)

\* if (!account) { if (isAllRateLimited) {...}  if (!account) throw ... }
\* up to the sleep(allWaitMs), with the pool as the selection left it
WithoutAccount(pool, index, req) ==
    /\ accounts' = pool
    /\ currentIndex' = index
    /\ IF isAllRateLimited(pool, Some(req.model), now)
       THEN IF getMinWaitTimeMs(pool, Some(req.model), now) > MAX_WAIT_BEFORE_ERROR_MS
            THEN request' = [Finish(req, {"RESOURCE_EXHAUSTED"}) EXCEPT
                                !.resetTime = now + getMinWaitTimeMs(pool, Some(req.model), now)]
            ELSE request' = [req EXCEPT !.pc = "sleepAll",
                                !.wakeAt = now + getMinWaitTimeMs(pool, Some(req.model), now)]
       ELSE request' = NoAccount(req)

\* the head of the retry loop: the attempt bound, pickStickyAccount, and the
\* code up to the first await
Attempt ==
    /\ request.pc = "attempt"
    /\ last' = SendCall("attempt", 0, None, None, <<>>)
    /\ IF request.attempt >= maxAttempts
       THEN /\ request' = Finish(request, {"Max retries exceeded"})
            /\ UNCHANGED <<accounts, currentIndex>>
       ELSE \E r \in {pickStickyAccount(accounts, currentIndex, Some(request.model), now)} :
                IF r.account # None
                THEN /\ accounts' = r.accounts
                     /\ currentIndex' = r.newIndex
                     /\ request' = Selected(request, r.account[1])
                ELSE IF r.waitMs > 0
                THEN /\ accounts' = r.accounts
                     /\ currentIndex' = r.newIndex
                     /\ request' = [request EXCEPT !.pc = "sleepSticky",
                                                   !.wakeAt = now + r.waitMs]
                ELSE WithoutAccount(r.accounts, r.newIndex, request)
    /\ UNCHANGED <<settings, initialized, now, marks, diskVars, formatVars, calls,
                   tokenCache, projectCache, issued, stream>>

\* sleep(waitMs) is over: clearExpiredLimits, getCurrentStickyAccount
WakeSticky ==
    /\ request.pc = "sleepSticky"
    /\ now >= request.wakeAt
    /\ last' = SendCall("wakeSticky", 0, None, None, <<>>)
    /\ \E r \in {getCurrentStickyAccount(clearExpiredLimits(accounts, now), currentIndex,
                                         Some(request.model), now)} :
           IF r.account # None
           THEN /\ accounts' = r.accounts
                /\ currentIndex' = r.newIndex
                /\ request' = Selected(request, r.account[1])
           ELSE WithoutAccount(r.accounts, r.newIndex, request)
    /\ UNCHANGED <<settings, initialized, now, marks, diskVars, formatVars, calls,
                   tokenCache, projectCache, issued, stream>>

\* sleep(allWaitMs) is over: clearExpiredLimits, pickNext
WakeAll ==
    /\ request.pc = "sleepAll"
    /\ now >= request.wakeAt
    /\ last' = SendCall("wakeAll", 0, None, None, <<>>)
    /\ \E r \in {pickNext(clearExpiredLimits(accounts, now), currentIndex,
                          Some(request.model), now)} :
           /\ accounts' = r.accounts
           /\ currentIndex' = r.newIndex
           /\ request' = IF r.account # None THEN Selected(request, r.account[1])
                         ELSE NoAccount(request)
    /\ UNCHANGED <<settings, initialized, now, marks, diskVars, formatVars, calls,
                   tokenCache, projectCache, issued, stream>>

\* a catch (error) that goes on to the next attempt after a 5xx or a network
\* failure without the pickNext that advances the pool
CaughtStaying(pool, req, message) ==
    /\ accounts' = pool
    /\ currentIndex' = currentIndex
    /\ request' = IF \/ isRateLimitError(message) \/ isAuthError(message)
                     \/ isSoftFailure(message) \/ isNetworkError(message)
                  THEN NextAttempt(req) ELSE Finish(req, message)

\* catch (error) of the retry loop, with the pool as the try block left it
Caught(pool, req, message) ==
    IF isRateLimitError(message) \/ isAuthError(message)
    THEN /\ accounts' = pool
         /\ currentIndex' = currentIndex
         /\ request' = NextAttempt(req)
    ELSE IF isSoftFailure(message) \/ isNetworkError(message)
    THEN \E r \in {pickNext(pool, currentIndex, Some(req.model), now)} :
             /\ accounts' = r.accounts
             /\ currentIndex' = r.newIndex
             /\ request' = NextAttempt(req)
    ELSE /\ accounts' = pool
         /\ currentIndex' = currentIndex
         /\ request' = Finish(req, message)

\* await accountManager.getTokenForAccount(account): the cached token, or
\* the answer of the token endpoint; onInvalid is AccountManager.markInvalid
GetTokenFrom(answers) ==
    /\ request.pc = "token"
    /\ \E answer \in answers :
        LET account == accounts[request.account]
            r == getTokenForAccount(account, tokenCache, answer, now)
            pool == IF r.onInvalid THEN markInvalid(accounts, account.email)
                    ELSE IF r.cleared
                    THEN [accounts EXCEPT ![request.account].isInvalid = FALSE]
                    ELSE accounts
        IN  /\ r.fetched /\ answer.access_token # None => issued < MaxIssued
            /\ ~r.fetched => answer = CHOOSE a \in answers : TRUE
            /\ issued' = IF r.fetched /\ answer.access_token # None
                         THEN issued + 1 ELSE issued
            /\ tokenCache' = r.tokenCache
            /\ last' = SendCall("getToken", account.email,
                                IF r.fetched THEN Some(answer) ELSE None, Some(r), <<>>)
            /\ IF r.result.threw
               THEN Caught(pool, request, r.result.message)
               ELSE /\ accounts' = pool
                    /\ currentIndex' = currentIndex
                    /\ request' = [request EXCEPT !.pc = "project",
                                                  !.token = r.result.value]
    /\ UNCHANGED <<settings, initialized, now, marks, diskVars, formatVars, calls, projectCache, stream>>

GetToken == GetTokenFrom(TokenAnswers)

\* await accountManager.getProjectForAccount(account, token), then the
\* payload is built and the endpoint loop starts
GetProject ==
    /\ request.pc = "project"
    /\ projectCache' = getProjectForAccount(accounts[request.account], projectCache)
    /\ request' = [request EXCEPT !.pc = "post"]
    /\ last' = SendCall("getProject", request.account, None, None, <<>>)
    /\ UNCHANGED <<accounts, currentIndex, settings, initialized, now, marks,
                   diskVars, formatVars, calls, tokenCache, issued, stream>>

\* lastError after an answer when every 429 replaces the one kept
lastErrorLatest(lastError, answer) ==
    IF answer.status = 0 THEN ErrorOf({answer.text})
    ELSE IF answer.status = 429 THEN RateLimitErrorInfo(answer.resetMs)
    ELSE ErrorOf(ApiError(answer.status))

\* lastError after an answer that is neither 200 nor 401
lastErrorAfter(lastError, answer) ==
    IF answer.status = 0 THEN ErrorOf({answer.text})
    ELSE IF answer.status = 429
    THEN IF \/ lastError = None
            \/ ~lastError.is429
            \/ /\ answer.resetMs # None /\ answer.resetMs[1] # 0
               /\ \/ lastError.resetMs = None
                  \/ lastError.resetMs[1] = 0
                  \/ answer.resetMs[1] < lastError.resetMs[1]
         THEN RateLimitErrorInfo(answer.resetMs)
         ELSE lastError
    ELSE ErrorOf(ApiError(answer.status))

\* after the answer of an endpoint was handled without leaving the loop: the
\* next endpoint, or after the last one the code that follows the loop
NextEndpoint(posted, email) ==
    IF posted.endpoint < Len(ANTIGRAVITY_ENDPOINT_FALLBACKS)
    THEN /\ request' = posted
         /\ UNCHANGED <<accounts, currentIndex>>
    ELSE IF posted.lastError = None
    THEN /\ request' = NextAttempt(posted)
         /\ UNCHANGED <<accounts, currentIndex>>
    ELSE IF posted.lastError.is429
    THEN Caught(markRateLimited(accounts, email, posted.lastError.resetMs,
                                settings, posted.model, now),
                posted, {"Rate limited"})
    ELSE Caught(accounts, posted, posted.lastError.message)

\* one turn of  for (const endpoint of ANTIGRAVITY_ENDPOINT_FALLBACKS):
\* the POST with the token of this attempt, the handling of the answer and,
\* after the last endpoint, the code that follows the loop. A 200 ends
\* sendMessage; in sendMessageStream it starts  yield* streamSSEResponse.
PostFrom(answers) ==
    /\ request.pc = "post"
    /\ \E answer \in answers :
        LET email == request.account
            posted == [request EXCEPT
                        !.posts = Append(@, [status |-> answer.status,
                                             resetMs |-> answer.resetMs,
                                             token |-> request.token]),
                        !.endpoint = @ + 1,
                        !.lastError = IF answer.status \in {200, 401} THEN @
                                      ELSE lastErrorAfter(@, answer)]
        IN  /\ last' = SendCall("post", email, Some(answer), None, posted.posts)
            /\ tokenCache' = IF answer.status = 401
                             THEN clearTokenCache(tokenCache, email) ELSE tokenCache
            /\ projectCache' = IF answer.status = 401
                               THEN clearProjectCache(projectCache, email)
                               ELSE projectCache
            /\ stream' = IF answer.status = 200 /\ request.streaming
                         THEN OpenedStream(stream) ELSE stream
            /\ IF answer.status = 200
               THEN /\ request' = IF request.streaming
                                  THEN [posted EXCEPT !.pc = "stream"]
                                  ELSE Finish(posted, {"ok"})
                    /\ UNCHANGED <<accounts, currentIndex>>
               ELSE IF answer.status = 0 /\ isRateLimitError({answer.text})
               THEN Caught(accounts, posted, {answer.text})
               ELSE NextEndpoint(posted, email)
    /\ UNCHANGED <<settings, initialized, now, marks, diskVars, formatVars, calls, issued>>

Post == PostFrom(UpstreamAnswers)

\* the clock, in minutes, advances while the request sleeps or none is in
\* flight: an exchange with the token endpoint or with upstream takes less
TickSend ==
    /\ request.pc \in {"idle", "done", "sleepSticky", "sleepAll"}
    /\ Tick
    /\ UNCHANGED <<diskVars, formatVars, calls, sendVars>>

\* One request after the other through the retry loop, on the pool.
NextSend ==
    \/ InitializeSend
    \/ Send
    \/ Attempt
    \/ WakeSticky
    \/ WakeAll
    \/ GetToken
    \/ GetProject
    \/ Post
    \/ TickSend

SpecSend == InitSend /\ [][NextSend]_vars

\* await sleep(ms): the clock advances towards the time the timer fires
Sleeping ==
    /\ request.pc \in {"sleepSticky", "sleepAll"}
    /\ now < request.wakeAt
    /\ now' = now + 1
    /\ last' = SendCall("sleep", 0, None, None, <<>>)
    /\ UNCHANGED <<accounts, currentIndex, settings, initialized, marks,
                   diskVars, formatVars, calls, sendVars>>

\* the first request arrives
SendFirst == request.id = 0 /\ Send

\* the token endpoint grants a token or cannot be reached
GrantOrFailure ==
    {TokenAnswer("json", 200, "", Some(issued + 1)),
     TokenAnswer("rejects", 0, "ECONNRESET", None)}

\* the answers that keep the retry loop going, and the 200 that ends it
RetriedAnswers ==
    {UpstreamAnswer(0, None, "ECONNRESET")}
    \cup {UpstreamAnswer(s, None, "") : s \in {200, 401, 503}}
    \cup {UpstreamAnswer(429, Some(r), "") :
            r \in {DEFAULT_COOLDOWN_MS, MAX_WAIT_BEFORE_ERROR_MS + 1}}

\* a step of the call in flight
Runs == Attempt \/ WakeSticky \/ WakeAll \/ GetTokenFrom(GrantOrFailure) \/ GetProject \/ PostFrom(RetriedAnswers)

\* One call of the retry loop with its scheduling: a timer that was set
\* fires, and a call whose await has settled goes on; time passes only in
\* the sleeps.
NextTerminates ==
    \/ InitializeSend
    \/ SendFirst
    \/ Attempt
    \/ WakeSticky
    \/ WakeAll
    \/ GetTokenFrom(GrantOrFailure)
    \/ GetProject
    \/ PostFrom(RetriedAnswers)
    \/ Sleeping

SpecTerminates ==
    InitSend /\ [][NextTerminates]_vars /\ WF_vars(Runs) /\ WF_vars(Sleeping)

\* the pools the calls with fallback run on: no account at all (the file
\* holds none and the database yields none), or MaxAccounts OAuth accounts
FallbackConfigs ==
    {Config([k \in 1..n |-> NoLimits], Some(0), None) : n \in {0, MaxAccounts}}

InitializeFallback ==
    /\ InitializeWith(FallbackConfigs, {FALSE})
    /\ UNCHANGED <<diskVars, formatVars, calls, sendVars>>

\* a call for a model the fallback table does not hold, on the empty pool
\* (the accounts of the model carry limits for the models of the table only)
SendUnlisted == accounts = <<>> /\ SendWith({"m0"}, {FALSE}, BOOLEAN)

\* the token endpoint grants a token or revokes the refresh token
GrantOrRevoke ==
    {TokenAnswer("json", 200, "", Some(issued + 1)),
     TokenAnswer("text", 400, "invalid_grant", None)}

\* upstream answers 200 or a 429 with a short or a long reset
QuotaAnswers ==
    {UpstreamAnswer(200, None, "")}
    \cup {UpstreamAnswer(429, Some(r), "") :
            r \in {DEFAULT_COOLDOWN_MS, MAX_WAIT_BEFORE_ERROR_MS + 1}}

\* The retry loop with the model fallback, on an empty or a full pool.
NextFallback ==
    \/ InitializeFallback
    \/ SendWith(Models, {FALSE}, BOOLEAN)
    \/ SendUnlisted
    \/ Attempt
    \/ WakeSticky
    \/ WakeAll
    \/ GetTokenFrom(GrantOrRevoke)
    \/ GetProject
    \/ PostFrom(QuotaAnswers)
    \/ Sleeping

SpecFallback == InitSend /\ [][NextFallback]_vars

\* the first sendMessageStream call arrives
SendStream == request.id = 0 /\ SendWith({SendModel}, {TRUE}, {FALSE})

\* upstream answers a streaming POST with 200 and a body, or with a 503
StreamAnswers ==
    {UpstreamAnswer(200, None, ""), UpstreamAnswer(503, None, "")}

\* the data: lines of the bodies: a text part, or a functionCall part with
\* finishReason STOP
BodyLines ==
    {Event(TRUE, <<Part(FALSE, Some("x"), "absent", 0)>>, None),
     Event(TRUE, <<Part(FALSE, None, "call", 0)>>, Some("STOP"))}

\* what every step of the stream of a call leaves alone
BodyFrame ==
    UNCHANGED <<settings, initialized, now, marks, diskVars, formatVars, calls,
                tokenCache, projectCache, issued>>

\* yield* streamSSEResponse(...): the generator reads a line of the body
\* and yields its events to the consumer of the call
ReadBody ==
    /\ request.pc = "stream"
    /\ ReadLineFrom(BodyLines)
    /\ UNCHANGED <<accounts, currentIndex, request>>
    /\ BodyFrame

\* the body ends: streamSSEResponse returns, then sendMessageStream
BodyEnds ==
    /\ request.pc = "stream"
    /\ EndOfBody
    /\ request' = Finish(request, {"ok"})
    /\ UNCHANGED <<accounts, currentIndex>>
    /\ BodyFrame

\* the messages reader.read() rejects with when the connection breaks
BodyFailures == {"ECONNRESET", "terminated"}

\* reader.read() rejects: the error leaves streamSSEResponse and yield*, and
\* the catch (endpointError) keeps it in lastError and goes on with the
\* endpoint loop
BodyFails ==
    /\ request.pc = "stream"
    /\ stream.pc = "reading"
    /\ \E message \in BodyFailures :
        /\ stream' = [stream EXCEPT !.pc = "failed"]
        /\ last' = SendCall("bodyFails", request.account, None, None, request.posts)
        /\ IF isRateLimitError({message})
           THEN Caught(accounts, [request EXCEPT !.pc = "post"], {message})
           ELSE NextEndpoint([request EXCEPT !.pc = "post",
                                             !.lastError = ErrorOf({message})],
                             request.account)
    /\ BodyFrame

\* the consumer stops while the generator is suspended at a yield and calls
\* return() on it: yield* passes the return on to streamSSEResponse, no
\* finally block runs, the reader is left as it is
ClientLeaves ==
    /\ request.pc = "stream"
    /\ stream.pc = "reading"
    /\ stream.out # <<>>
    /\ stream' = [stream EXCEPT !.pc = "returned"]
    /\ request' = Finish(request, {"returned"})
    /\ last' = SendCall("leave", request.account, None, None, request.posts)
    /\ UNCHANGED <<accounts, currentIndex>>
    /\ BodyFrame

\* A sendMessageStream call with the streams it opens. No account gets
\* rate-limited under these answers, so the call never sleeps.
NextStreaming ==
    \/ InitializeSend
    \/ SendStream
    \/ Attempt
    \/ GetTokenFrom(GrantOrFailure)
    \/ GetProject
    \/ PostFrom(StreamAnswers)
    \/ ReadBody
    \/ BodyEnds
    \/ BodyFails
    \/ ClientLeaves

SpecStreaming == InitSend /\ [][NextStreaming]_vars

\* ------------------------------------------------- the signature cache
\* signature-cache is a map bounded by an LRU policy, shared by the SSE
\* translator (which stores the signature of a tool_use it emits) and the
\* content converter (which looks it up for a tool_use a client sends back).

\* the entries the cache keeps
CacheCapacity == 2

\* the sentinel Gemini accepts in place of a signature
GEMINI_SKIP_SIGNATURE == "skip_thought_signature_validator"

\* tool_use ids; the ones the translator mints are among them
ToolIds == {"toolu_1", "toolu_2", "toolu_3"}

\* thoughtSignature strings: empty, shorter than MIN_SIGNATURE_LENGTH, two
\* that are long enough
Signatures == {"", "s", "sig1", "sig2"}

\* an optional field: missing, or present with one of the values
Optional(values) == {None} \cup {Some(v) : v \in values}

\* JavaScript truthiness of an optional string
Truthy(field) == field # None /\ field[1] # ""

\* the entries of the cache without the one of an id
WithoutId(cache, id) == SelectSeq(cache, LAMBDA entry : entry.id # id)

\* cacheSignature(toolUseId, signature): the entry becomes the most recent
\* one, the least recently used ones beyond the capacity are dropped
cacheSignature(cache, id, signature) ==
    LET entries == Append(WithoutId(cache, id), [id |-> id, signature |-> signature])
    IN  IF Len(entries) > CacheCapacity
        THEN SubSeq(entries, Len(entries) - CacheCapacity + 1, Len(entries))
        ELSE entries

\* getCachedSignature(toolUseId): the signature stored under the id, if any
getCachedSignature(cache, id) ==
    LET found == SelectSeq(cache, LAMBDA entry : entry.id = id)
    IN  IF found = <<>> THEN None ELSE Some(found[1].signature)

\* the cache after getCachedSignature(toolUseId): a hit is a use
lookedUp(cache, id) ==
    LET hit == getCachedSignature(cache, id)
    IN  IF hit = None THEN cache ELSE cacheSignature(cache, id, hit[1])

\* a tool_use block of an Anthropic message
ToolUseBlock(id, thoughtSignature) == [id |-> id, thoughtSignature |-> thoughtSignature]

\* a functionCall part of a Google request
FunctionCallPart(id, thoughtSignature) ==
    [functionCall |-> [id |-> id], thoughtSignature |-> thoughtSignature]

\* model families of a target
Families == {"claude", "gemini", "unknown"}

\* convertContentToParts, the tool_use branch: the part pushed and whether the
\* cache was asked
convertToolUse(block, isClaudeModel, isGeminiModel, cache) ==
    LET id == IF isClaudeModel /\ Truthy(block.id) THEN block.id ELSE None
        asks == isGeminiModel /\ ~Truthy(block.thoughtSignature) /\ Truthy(block.id)
        cachedSig == IF asks THEN getCachedSignature(cache, block.id[1]) ELSE None
        signature == IF Truthy(cachedSig) THEN cachedSig ELSE block.thoughtSignature
    IN  [part |-> FunctionCallPart(id, IF isGeminiModel
                                       THEN Some(Nullish(signature, GEMINI_SKIP_SIGNATURE))
                                       ELSE None),
         cache |-> IF asks THEN lookedUp(cache, block.id[1]) ELSE cache]

\* a record of a step of a format converter
FormatCall(op, block, family, part) ==
    [op |-> op, modelId |-> None, email |-> 0, resetMs |-> None,
     account |-> None, waitMs |-> 0, preIndex |-> currentIndex,
     block |-> block, family |-> family, part |-> part]

\* what the format converters leave alone
FormatFrame ==
    UNCHANGED <<accounts, currentIndex, settings, initialized, now, marks,
                diskVars, calls, sendVars>>

\* streamSSEResponse meets a functionCall part: the tool_use block it starts,
\* the signature it caches under the id of the block
EmitToolUse ==
    \E toolId \in ToolIds, thoughtSignature \in Optional(Signatures) :
        LET functionCallSignature ==
                IF Truthy(thoughtSignature) THEN thoughtSignature[1] ELSE ""
            kept == Len(functionCallSignature) >= MIN_SIGNATURE_LENGTH
        IN  /\ signatureCache' = IF kept
                                 THEN cacheSignature(signatureCache, toolId, functionCallSignature)
                                 ELSE signatureCache
            /\ last' = FormatCall("tool_use",
                                  ToolUseBlock(Some(toolId),
                                               IF kept THEN Some(functionCallSignature) ELSE None),
                                  "gemini", None)
            /\ UNCHANGED <<openai, accumulated, parked>>

\* convertContentToParts(content, isClaudeModel, isGeminiModel) on a message
\* with a tool_use block
ConvertToolUse ==
    \E id \in Optional(ToolIds), thoughtSignature \in Optional(Signatures),
       family \in Families :
        LET block == ToolUseBlock(id, thoughtSignature)
            r == convertToolUse(block, family = "claude", family = "gemini", signatureCache)
        IN  /\ signatureCache' = r.cache
            /\ last' = FormatCall("convert", block, family, Some(r.part))
            /\ UNCHANGED <<openai, accumulated, parked>>

InitSignature ==
    /\ accounts = <<>>
    /\ currentIndex = 0
    /\ settings = None
    /\ initialized = FALSE
    /\ now = 0
    /\ marks = 0
    /\ last = [op |-> "new", modelId |-> None, email |-> 0, resetMs |-> None,
               account |-> None, waitMs |-> 0, preIndex |-> 0]
    /\ configFile = None
    /\ saves = <<>>
    /\ extras = [accounts |-> <<>>, settings |-> {}]
    /\ calls = None
    /\ tokenCache = None /\ projectCache = None /\ request = None /\ issued = 0
    /\ stream = None
    /\ signatureCache = <<>> /\ openai = None /\ accumulated = None /\ parked = None

\* Tool calls streamed to a client and sent back by it in follow-up requests.
NextSignature ==
    \/ EmitToolUse /\ FormatFrame
    \/ ConvertToolUse /\ FormatFrame

SpecSignature == InitSignature /\ [][NextSignature]_vars

\* ------------------------------------------------- the OpenAI stream adapter
\* streamToOpenAIFormat reads the Anthropic events of a response one by one
\* and yields OpenAI chunks.  An Anthropic event is a record of its type, the
\* type of its content_block or delta (kind), whether the text / partial_json
\* of a delta or the id of a tool_use block is empty (empty), and the
\* stop_reason of a message_delta (kind).

\* content blocks of one message, deltas of one block
MaxBlocks == 3
MaxDeltas == 2

AnthropicEvent(type, kind, empty) == [type |-> type, kind |-> kind, empty |-> empty]

BlockTypes == {"text", "thinking", "tool_use"}

\* the deltas a block of a type can carry
DeltasFor(blockType) ==
    CASE blockType = "text" ->
            {AnthropicEvent("content_block_delta", "text_delta", e) : e \in BOOLEAN}
      [] blockType = "thinking" ->
            {AnthropicEvent("content_block_delta", k, FALSE) :
                k \in {"thinking_delta", "signature_delta"}}
      [] blockType = "tool_use" ->
            {AnthropicEvent("content_block_delta", "input_json_delta", e) : e \in BOOLEAN}

StopReasons == {"end_turn", "max_tokens", "tool_use", "stop_sequence"}

\* the positions of the events of a type
EventsOfType(events, type) == {i \in 1..Len(events) : events[i].type = type}

\* the events since the start of the block that is open
OpenBlock(events) ==
    LET starts == EventsOfType(events, "content_block_start")
        start == CHOOSE i \in starts : \A j \in starts : j <= i
    IN  SubSeq(events, start, Len(events))

\* the events that can follow the events of a message so far: message_start,
\* blocks of content_block_start, deltas, content_block_stop, then
\* message_delta, message_stop
FollowingEvents(events) ==
    LET lastType == events[Len(events)].type
        newBlocks ==
            IF Cardinality(EventsOfType(events, "content_block_start")) < MaxBlocks
            THEN {AnthropicEvent("content_block_start", k, e) :
                    k \in BlockTypes, e \in BOOLEAN}
                 \ {AnthropicEvent("content_block_start", k, TRUE) :
                    k \in {"text", "thinking"}}
            ELSE {}
        closing == {AnthropicEvent("message_delta", r, FALSE) : r \in StopReasons}
    IN  CASE events = <<>> -> {AnthropicEvent("message_start", "", FALSE)}
          [] events # <<>> /\ lastType \in {"message_start", "content_block_stop"} ->
                newBlocks \cup closing
          [] events # <<>> /\ lastType \in {"content_block_start", "content_block_delta"} ->
                (IF Len(OpenBlock(events)) <= MaxDeltas
                 THEN DeltasFor(OpenBlock(events)[1].kind) ELSE {})
                \cup {AnthropicEvent("content_block_stop", "", FALSE)}
          [] events # <<>> /\ lastType = "message_delta" ->
                {AnthropicEvent("message_stop", "", FALSE)}
          [] OTHER -> {}

\* createStreamChunk(id, model, delta, finishReason) as an SSE line, or the
\* [DONE] line: what the delta carries (kind), the index of its tool call,
\* its finish_reason, the position of the event it was made from
Chunk(kind, index, finish_reason, from) ==
    [kind |-> kind, index |-> index, finish_reason |-> finish_reason, from |-> from]

\* the generator before its first event
NewAdapter ==
    [isFirstChunk |-> TRUE, currentToolCall |-> None, toolCallIndex |-> 0,
     events |-> <<>>, out |-> <<>>]

\* yield
YieldChunk(st, kind, index, finish_reason) ==
    [st EXCEPT !.out = Append(@, Chunk(kind, index, finish_reason, Len(st.events)))]

\* content_block_stop that leaves toolCallIndex as it is
blockStopKeepingIndex(st) ==
    [st EXCEPT !.currentToolCall = None]

\* content_block_stop
blockStop(st) ==
    IF st.currentToolCall # None
    THEN [st EXCEPT !.toolCallIndex = @ + 1, !.currentToolCall = None]
    ELSE st

\* content_block_start
blockStart(st, event) ==
    IF event.kind = "tool_use"
    THEN YieldChunk([st EXCEPT !.currentToolCall = Some(st.toolCallIndex)],
                    "tool_call", Some(st.toolCallIndex), None)
    ELSE st

\* content_block_delta
blockDelta(st, event) ==
    CASE event.kind = "text_delta" /\ ~event.empty -> YieldChunk(st, "content", None, None)
      [] event.kind = "input_json_delta" /\ ~event.empty /\ st.currentToolCall # None ->
            YieldChunk(st, "arguments", st.currentToolCall, None)
      [] OTHER -> st

\* message_delta
messageDelta(st, event) ==
    YieldChunk(st, "finish", None,
               Some(CASE event.kind = "max_tokens" -> "length"
                      [] event.kind = "tool_use" -> "tool_calls"
                      [] OTHER -> "stop"))

\* the body of the for await loop on one event
adapt(st, event) ==
    CASE st.isFirstChunk /\ event.type = "message_start" ->
            YieldChunk([st EXCEPT !.isFirstChunk = FALSE], "role", None, None)
      [] event.type = "content_block_start" -> blockStart(st, event)
      [] event.type = "content_block_delta" -> blockDelta(st, event)
      [] event.type = "content_block_stop" -> blockStop(st)
      [] event.type = "message_delta" -> messageDelta(st, event)
      [] event.type = "message_stop" -> YieldChunk(st, "done", None, None)
      [] OTHER -> st

\* streamToOpenAIFormat(anthropicEvents, model) is called
OpenAdapter ==
    /\ openai = None
    /\ openai' = Some(NewAdapter)
    /\ last' = FormatCall("openai", None, "", None)
    /\ UNCHANGED <<signatureCache, accumulated, parked>>

\* the generator takes the next event of the response
AdaptEvent ==
    /\ openai # None
    /\ \E event \in FollowingEvents(openai[1].events) :
        /\ openai' = Some(adapt([openai[1] EXCEPT !.events = Append(@, event)], event))
        /\ last' = FormatCall("event", None, "", None)
    /\ UNCHANGED <<signatureCache, accumulated, parked>>

\* The adapter on the events of one well-formed Anthropic message.
NextOpenAI ==
    \/ OpenAdapter /\ FormatFrame
    \/ AdaptEvent /\ FormatFrame

SpecOpenAI == InitSignature /\ [][NextOpenAI]_vars

\* ------------------------------------------------- the OpenAI front door
\* convertOpenAIToInternal turns a Chat Completions request into the request
\* the dispatcher takes; resolveModelAlias picks its model.  A model name is
\* the sequence of its characters.

\* 'claude-opus-4-5-thinking'
ClaudeOpus == <<"c", "l", "a", "u", "d", "e", "-", "o", "p", "u", "s", "-", "4", "-",
      "5", "-", "t", "h", "i", "n", "k", "i", "n", "g">>

\* 'claude-sonnet-4-5-thinking'
ClaudeSonnet == <<"c", "l", "a", "u", "d", "e", "-", "s", "o", "n", "n", "e", "t", "-",
      "4", "-", "5", "-", "t", "h", "i", "n", "k", "i", "n", "g">>

\* 'gemini-3-flash'
GeminiFlash == <<"g", "e", "m", "i", "n", "i", "-", "3", "-", "f", "l", "a", "s", "h">>

\* 'gemini-3-pro-high'
GeminiPro == <<"g", "e", "m", "i", "n", "i", "-", "3", "-", "p", "r", "o", "-", "h", "i",
      "g", "h">>

\* the aliases object of resolveModelAlias: its own keys and their values
aliases ==
    { <<<<"o", "p", "u", "s">>, ClaudeOpus>>,
      <<<<"o", "p", "u", "s", "-", "p", "r", "o", "x", "y">>, ClaudeOpus>>,
      <<<<"a", "n", "t", "i", "g", "r", "a", "v", "i", "t", "y", "-", "o", "p", "u", "s">>, ClaudeOpus>>,
      <<<<"c", "l", "a", "u", "d", "e", "-", "o", "p", "u", "s">>, ClaudeOpus>>,
      <<<<"s", "o", "n", "n", "e", "t">>, ClaudeSonnet>>,
      <<<<"s", "o", "n", "n", "e", "t", "-", "p", "r", "o", "x", "y">>, ClaudeSonnet>>,
      <<<<"a", "n", "t", "i", "g", "r", "a", "v", "i", "t", "y", "-", "s", "o", "n", "n", "e", "t">>, ClaudeSonnet>>,
      <<<<"c", "l", "a", "u", "d", "e", "-", "s", "o", "n", "n", "e", "t">>, ClaudeSonnet>>,
      <<<<"g", "e", "m", "i", "n", "i">>, GeminiFlash>>,
      <<<<"g", "e", "m", "i", "n", "i", "-", "p", "r", "o", "x", "y">>, GeminiFlash>>,
      <<<<"f", "l", "a", "s", "h">>, GeminiFlash>>,
      <<<<"g", "e", "m", "i", "n", "i", "-", "p", "r", "o">>, GeminiPro>>,
      <<<<"t", "e", "s", "t">>, ClaudeSonnet>>,
      <<<<"d", "e", "f", "a", "u", "l", "t">>, ClaudeSonnet>>}

\* what every JavaScript object inherits under an all-lowercase key:
\* Object.prototype.constructor, a function
InheritedKeys == {<<"c", "o", "n", "s", "t", "r", "u", "c", "t", "o", "r">>}
ObjectFunction == <<"[Function: Object]">>

UpperCase == <<"A", "B", "C", "D", "E", "F", "G", "H", "I", "J", "K", "L", "M",
               "N", "O", "P", "Q", "R", "S", "T", "U", "V", "W", "X", "Y", "Z">>
LowerCase == <<"a", "b", "c", "d", "e", "f", "g", "h", "i", "j", "k", "l", "m",
               "n", "o", "p", "q", "r", "s", "t", "u", "v", "w", "x", "y", "z">>

\* String.prototype.toLowerCase
toLowerCase(name) ==
    [i \in 1..Len(name) |->
        IF \E k \in 1..26 : UpperCase[k] = name[i]
        THEN LowerCase[CHOOSE k \in 1..26 : UpperCase[k] = name[i]]
        ELSE name[i]]

\* String.prototype.includes
includes(name, word) ==
    \E i \in 0..(Len(name) - Len(word)) : SubSeq(name, i + 1, i + Len(word)) = word

\* aliases[name]: the value under the key, own or inherited, if there is one
aliasOf(name) ==
    IF \E pair \in aliases : pair[1] = name
    THEN Some((CHOOSE pair \in aliases : pair[1] = name)[2])
    ELSE IF name \in InheritedKeys THEN Some(ObjectFunction) ELSE None

\* resolveModelAlias(modelName); modelName is None when the request has none
resolveModelAlias(modelName) ==
    LET name == toLowerCase(Nullish(modelName, <<>>))
    IN  IF includes(name, <<"c", "l", "a", "u", "d", "e">>) \/ includes(name, <<"g", "e", "m", "i", "n", "i">>)
        THEN modelName[1]
        ELSE Nullish(aliasOf(name), ClaudeSonnet)

\* the model names of the requests: the documented aliases, the other keys of
\* the aliases object, real model ids, names that are neither
ModelNames ==
    {<<"o", "p", "u", "s", "-", "p", "r", "o", "x", "y">>,
     <<"s", "o", "n", "n", "e", "t", "-", "p", "r", "o", "x", "y">>,
     <<"g", "e", "m", "i", "n", "i", "-", "p", "r", "o", "x", "y">>,
     <<"o", "p", "u", "s">>,
     <<"c", "l", "a", "u", "d", "e", "-", "o", "p", "u", "s">>,
     <<"s", "o", "n", "n", "e", "t">>,
     <<"c", "l", "a", "u", "d", "e", "-", "s", "o", "n", "n", "e", "t">>,
     <<"f", "l", "a", "s", "h">>,
     <<"g", "e", "m", "i", "n", "i">>,
     <<"a", "n", "t", "i", "g", "r", "a", "v", "i", "t", "y", "-", "o", "p", "u", "s">>,
     <<"a", "n", "t", "i", "g", "r", "a", "v", "i", "t", "y", "-", "s", "o", "n", "n", "e", "t">>,
     <<"g", "e", "m", "i", "n", "i", "-", "p", "r", "o">>,
     <<"t", "e", "s", "t">>,
     <<"d", "e", "f", "a", "u", "l", "t">>,
     <<"c", "l", "a", "u", "d", "e", "-", "o", "p", "u", "s", "-", "4", "-", "5", "-", "t", "h", "i", "n", "k", "i", "n", "g">>,
     <<"c", "l", "a", "u", "d", "e", "-", "s", "o", "n", "n", "e", "t", "-", "4", "-", "5", "-", "t", "h", "i", "n", "k", "i", "n", "g">>,
     <<"g", "e", "m", "i", "n", "i", "-", "3", "-", "f", "l", "a", "s", "h">>,
     <<"g", "p", "t", "-", "4">>,
     <<"O", "p", "u", "s">>,
     <<"c", "o", "n", "s", "t", "r", "u", "c", "t", "o", "r">>,
     <<>>}

\* messages of one request
MaxMessages == 2

MessageRoles == {"system", "user", "assistant", "tool", "developer"}

\* the roles of the messages of the requests
RoleLists == UNION {[1..n -> MessageRoles] : n \in 0..MaxMessages}

\* the role a message is pushed with, None for a message that is not pushed
internalRole(role) ==
    CASE role = "user" -> Some("user")
      [] role = "assistant" -> Some("assistant")
      [] role = "tool" -> Some("user")
      [] OTHER -> None

RECURSIVE conversationMessages(_)
conversationMessages(roles) ==
    IF roles = <<>> THEN <<>>
    ELSE LET pushed == internalRole(Head(roles))
         IN  (IF pushed = None THEN <<>> ELSE <<pushed[1]>>)
             \o conversationMessages(Tail(roles))

\* convertOpenAIToInternal(openaiRequest): model, max_tokens and stream of
\* the request (None when missing), the roles of its messages
convertOpenAIToInternal(model, roles, max_tokens, streamFlag) ==
    [model |-> resolveModelAlias(model),
     messages |-> conversationMessages(roles),
     max_tokens |-> IF max_tokens \in {None, Some(0)} THEN 4096 ELSE max_tokens[1],
     stream |-> streamFlag,
     system |-> \E i \in 1..Len(roles) : roles[i] = "system"]

\* a record of a conversion of a request
RequestCall(op, openaiRequest, internal) ==
    [op |-> op, modelId |-> None, email |-> 0, resetMs |-> None,
     account |-> None, waitMs |-> 0, preIndex |-> currentIndex,
     openaiRequest |-> openaiRequest, internal |-> internal]

\* POST /v1/chat/completions arrives with a request
ReceiveOpenAI ==
    /\ last.op = "new"
    /\ \E model \in Optional(ModelNames), roles \in RoleLists,
          max_tokens \in Optional({0, 100}), streamFlag \in Optional(BOOLEAN) :
        last' = RequestCall("received",
                            [model |-> model, roles |-> roles,
                             max_tokens |-> max_tokens, stream |-> streamFlag],
                            None)
    /\ UNCHANGED formatVars

\* the route converts the request it received
ConvertOpenAI ==
    /\ last.op = "received"
    /\ last' = RequestCall("openai", last.openaiRequest,
                           Some(convertOpenAIToInternal(last.openaiRequest.model,
                                                        last.openaiRequest.roles,
                                                        last.openaiRequest.max_tokens,
                                                        last.openaiRequest.stream)))
    /\ UNCHANGED formatVars

\* A Chat Completions request arriving at the front door.
NextAlias ==
    \/ ReceiveOpenAI /\ FormatFrame
    \/ ConvertOpenAI /\ FormatFrame

SpecAlias == InitSignature /\ [][NextAlias]_vars

\* the answers that rate-limit an account or fail softly: 429 without a
\* reset, with a reset below and one above the configured cooldown
CooldownAnswers ==
    {UpstreamAnswer(s, None, "") : s \in {401, 503}}
    \cup {UpstreamAnswer(429, r, "") : r \in ParsedResets}

\* the pool with and without settings.cooldownDurationMs
InitializeCooldown ==
    /\ InitializeWith({Config([k \in 1..MaxAccounts |-> NoLimits], Some(0), c) :
                        c \in CooldownSettings}, {FALSE})
    /\ UNCHANGED <<diskVars, formatVars, calls, sendVars>>

\* One call whose attempts are rate-limited upstream.
NextCooldown ==
    \/ InitializeCooldown
    \/ SendFirst
    \/ Attempt
    \/ WakeSticky
    \/ WakeAll
    \/ GetTokenFrom({TokenAnswer("json", 200, "", Some(issued + 1))})
    \/ GetProject
    \/ PostFrom(CooldownAnswers)
    \/ Sleeping

SpecCooldown == InitSend /\ [][NextCooldown]_vars

\* ------------------------------------------------ the non-streaming thinking path

\* The parts of the bodies read by both paths: thought parts with and without
\* text, with no signature, a short one and two long ones; texts that are
\* empty, blank and not; a functionCall; null.
ParsedParts ==
    {Part(TRUE, Some("t"), "absent", n) :
        n \in {0, MIN_SIGNATURE_LENGTH - 1, MIN_SIGNATURE_LENGTH}}
    \cup {Part(TRUE, Some(""), "absent", MIN_SIGNATURE_LENGTH + 1)}
    \cup {Part(FALSE, Some(t), "absent", 0) : t \in {"x", "", " "}}
    \cup {Part(FALSE, None, "call", 0), NullPart}

ParsedEvents ==
    {Event(FALSE, <<>>, None)}
    \cup {Event(TRUE, parts, f) :
            parts \in UNION {[1..n -> ParsedParts] : n \in 0..MaxParts},
            f \in {None, Some("MAX_TOKENS")}}

\* an entry of finalParts
ParsedPart(thought, text, functionCall, thoughtSignature) ==
    [thought |-> thought, text |-> text, functionCall |-> functionCall,
     thoughtSignature |-> thoughtSignature]

\* parseThinkingSSEResponse called on a response: its locals, the number of
\* data: lines it has read, and the content of the response it returns
NewParse ==
    [pc |-> "reading", read |-> 0, accumulatedThinkingText |-> "",
     accumulatedThinkingSignature |-> 0, accumulatedText |-> "",
     finalParts |-> <<>>, finishReason |-> "STOP", content |-> <<>>]

flushThinking(st) ==
    IF st.accumulatedThinkingText # ""
    THEN [st EXCEPT !.finalParts =
                        Append(@, ParsedPart(TRUE, Some(st.accumulatedThinkingText),
                                             "absent", st.accumulatedThinkingSignature)),
                    !.accumulatedThinkingText = "",
                    !.accumulatedThinkingSignature = 0]
    ELSE st

flushText(st) ==
    IF st.accumulatedText # ""
    THEN [st EXCEPT !.finalParts =
                        Append(@, ParsedPart(FALSE, Some(st.accumulatedText), "absent", 0)),
                    !.accumulatedText = ""]
    ELSE st

\* the body of  for (const part of parts)  in parseThinkingSSEResponse:
\* "thought" in null throws
parsePart(st, part) ==
    IF part.isNull THEN Processed(st, TRUE)
    ELSE IF part.thought /\ part.text # None
    THEN LET flushed == flushText(st)
             added == [flushed EXCEPT !.accumulatedThinkingText = @ \o part.text[1]]
         IN  Processed(
                IF part.thoughtSignature # 0
                THEN [added EXCEPT !.accumulatedThinkingSignature = part.thoughtSignature]
                ELSE added,
                FALSE)
    ELSE IF part.functionCall # "absent"
    THEN Processed(
            [flushText(flushThinking(st)) EXCEPT !.finalParts =
                Append(@, ParsedPart(FALSE, None, part.functionCall, part.thoughtSignature))],
            FALSE)
    ELSE IF part.text # None
    THEN IF part.text[1] = "" THEN Processed(st, FALSE)
         ELSE Processed([flushThinking(st) EXCEPT !.accumulatedText = @ \o part.text[1]],
                        FALSE)
    ELSE Processed(st, FALSE)

\* for (const part of parts) { ... }, left at the first part that throws
RECURSIVE parseParts(_, _)
parseParts(st, parts) ==
    IF parts = <<>> THEN st
    ELSE LET first == parsePart(st, Head(parts))
         IN  IF first.threw THEN first.st
             ELSE parseParts(first.st, Tail(parts))

\* the try { ... } catch (e) { } for one data: line: finishReason is set
\* before the parts are walked
parseLine(st, event) ==
    IF ~event.json THEN st
    ELSE parseParts(
            IF event.finishReason # None
            THEN [st EXCEPT !.finishReason = event.finishReason[1]]
            ELSE st,
            event.parts)

\* a block of the Anthropic response
ContentBlock(type, text, signature) ==
    [type |-> type, text |-> text, signature |-> signature]

\* finalParts.map(...): an entry that is neither a thought nor a truthy
\* functionCall becomes { text: p.text ?? "" }
accumulatedPart(p) ==
    IF p.thought /\ p.text # None THEN p
    ELSE IF p.functionCall = "call" THEN ParsedPart(FALSE, None, "call", p.thoughtSignature)
    ELSE ParsedPart(FALSE, Some(Nullish(p.text, "")), "absent", 0)

\* convertGoogleToAnthropic on the accumulated parts: runs of text parts
\* become one text block, a thought part a thinking block with its signature
\* when that is long enough, a functionCall part a tool_use block
RECURSIVE convertGoogleToAnthropic(_, _)
convertGoogleToAnthropic(parts, content) ==
    IF parts = <<>> THEN content
    ELSE LET p == Head(parts)
             n == Len(content)
         IN  convertGoogleToAnthropic(Tail(parts),
                IF p.thought
                THEN Append(content,
                        ContentBlock("thinking", p.text[1],
                            IF p.thoughtSignature >= MIN_SIGNATURE_LENGTH
                            THEN p.thoughtSignature ELSE 0))
                ELSE IF p.functionCall = "call"
                THEN Append(content, ContentBlock("tool_use", "", 0))
                ELSE IF n > 0 /\ content[n].type = "text"
                THEN [content EXCEPT ![n].text = @ \o p.text[1]]
                ELSE Append(content, ContentBlock("text", p.text[1], 0)))

\* after the read loop: flushThinking(); flushText(); and the conversion
finishParse(st) ==
    LET flushed == flushText(flushThinking(st))
    IN  [flushed EXCEPT
            !.pc = "done",
            !.content = convertGoogleToAnthropic(
                            [i \in 1..Len(flushed.finalParts) |->
                                accumulatedPart(flushed.finalParts[i])], <<>>)]

\* what a step of either reader of the body leaves alone
ParseFrame ==
    UNCHANGED <<accounts, currentIndex, settings, initialized, now, marks,
                diskVars, signatureCache, openai, parked, calls, tokenCache,
                projectCache, request, issued>>

\* parseThinkingSSEResponse(response, model) is called on a response with the
\* body that streamSSEResponse is given
OpenParse ==
    /\ accumulated = None
    /\ stream.pc # "closed"
    /\ accumulated' = Some(NewParse)
    /\ last' = StreamCall("parse", None)
    /\ UNCHANGED stream

\* its reader.read() yields the next data: line of that body
ParseLine ==
    /\ accumulated # None
    /\ accumulated[1].pc = "reading"
    /\ accumulated[1].read < Len(stream.lines)
    /\ LET event == stream.lines[accumulated[1].read + 1]
       IN  /\ accumulated' = Some([parseLine(accumulated[1], event)
                                        EXCEPT !.read = @ + 1])
           /\ last' = StreamCall("parsed", Some(event))
    /\ UNCHANGED stream

\* its reader.read() reports done, at the end of that body
EndOfParse ==
    /\ accumulated # None
    /\ accumulated[1].pc = "reading"
    /\ stream.pc = "done"
    /\ accumulated[1].read = Len(stream.lines)
    /\ accumulated' = Some(finishParse(accumulated[1]))
    /\ last' = StreamCall("returned", None)
    /\ UNCHANGED stream

\* One upstream body read by the streaming path and by the accumulating path.
NextParse ==
    \/ OpenStream /\ ParseFrame /\ UNCHANGED accumulated
    \/ ReadLineFrom(ParsedEvents) /\ ParseFrame /\ UNCHANGED accumulated
    \/ EndOfBody /\ ParseFrame /\ UNCHANGED accumulated
    \/ OpenParse /\ ParseFrame
    \/ ParseLine /\ ParseFrame
    \/ EndOfParse /\ ParseFrame

SpecParse == InitStream /\ [][NextParse]_vars

\* ------------------------------------------------ two calls in flight

\* the answers of upstream to the calls in flight: success, a 5xx, a
\* connection reset and a 429 with the default cooldown
InFlightAnswers ==
    {UpstreamAnswer(s, None, "") : s \in {200, 503}}
    \cup {UpstreamAnswer(0, None, "ECONNRESET"),
          UpstreamAnswer(429, Some(DEFAULT_COOLDOWN_MS), "")}

\* a call is suspended at an await (or has returned) unless it is at the top
\* of its retry loop, which runs on to the selection without suspending
Suspended(req) == req.pc # "attempt"

\* a second request arrives while the first call is suspended: its handler
\* starts, the first call waits for the event loop
SendSecond ==
    /\ initialized
    /\ parked = None
    /\ request.pc \notin {"idle", "done"}
    /\ Suspended(request)
    /\ request.id < MaxSends
    /\ parked' = Some(request)
    /\ request' = NewRequest(request.id + 1)
    /\ last' = SendCall("send", 0, None, None, <<>>)
    /\ UNCHANGED <<accounts, currentIndex, settings, initialized, now, marks,
                   diskVars, signatureCache, openai, accumulated, calls,
                   tokenCache, projectCache, issued, stream>>

\* the event loop turns to the other call: the running call is suspended at
\* an await, or has returned
Resume ==
    /\ parked # None
    /\ Suspended(request)
    /\ request' = parked[1]
    /\ parked' = Some(request)
    /\ last' = SendCall("resume", 0, None, None, <<>>)
    /\ UNCHANGED <<accounts, currentIndex, settings, initialized, now, marks,
                   diskVars, signatureCache, openai, accumulated, calls,
                   tokenCache, projectCache, issued, stream>>

\* Two calls of sendMessage in flight on a pool of MaxAccounts accounts, each
\* step running one call from an await to its next one.
NextInFlight ==
    \/ InitializeSend
    \/ SendFirst
    \/ SendSecond
    \/ Resume
    \/ Attempt
    \/ WakeSticky
    \/ WakeAll
    \/ GetTokenFrom({TokenAnswer("text", 400, "invalid_grant", None),
                     TokenAnswer("json", 200, "", Some(issued + 1))})
    \/ GetProject
    \/ PostFrom(InFlightAnswers)
    \/ Sleeping

SpecInFlight == InitSend /\ [][NextInFlight]_vars

\* the answers of upstream that are a success or a soft failure
SoftAnswers ==
    {UpstreamAnswer(s, None, "") : s \in {200, 503}}
    \cup {UpstreamAnswer(0, None, "ECONNRESET")}

\* Two calls in flight whose tokens are granted and whose POSTs succeed or
\* fail softly: no account is marked invalid or rate-limited.
NextSoftFailure ==
    \/ InitializeSend
    \/ SendFirst
    \/ SendSecond
    \/ Resume
    \/ Attempt
    \/ GetTokenFrom({TokenAnswer("json", 200, "", Some(issued + 1))})
    \/ GetProject
    \/ PostFrom(SoftAnswers)

SpecSoftFailure == InitSend /\ [][NextSoftFailure]_vars

\* ------------------------------------------------------------- the claims
\* The words of the claims, stated on the data and not through the
\* selection code: an unexpired rate limit of an account for a model, and an
\* account that is usable for a model.
UnexpiredLimit(account, modelId, time) ==
    /\ modelId # None
    /\ account.modelRateLimits[modelId[1]] # None
    /\ account.modelRateLimits[modelId[1]][1].isRateLimited
    /\ account.modelRateLimits[modelId[1]][1].resetTime # None
    /\ account.modelRateLimits[modelId[1]][1].resetTime[1] > time

UsableFor(account, modelId, time) ==
    ~account.isInvalid /\ ~UnexpiredLimit(account, modelId, time)

\* the positions of the pool whose account is usable for the model
UsablePositions(pool, modelId, time) ==
    {i \in 0..(Len(pool) - 1) : UsableFor(pool[i + 1], modelId, time)}

\* there is an account at activeIndex
StickyExists == currentIndex >= 0 /\ currentIndex < Len(accounts)
StickyAccount == accounts[currentIndex + 1]

\* the step is a call of the operation with this modelId
Calls(op, modelId) == last'.op = op /\ last'.modelId = modelId

\* C1: pickSticky(model) returns the account at activeIndex with waitMs = 0
\* and leaves activeIndex where it is whenever that account is usable for the
\* model, whatever the other accounts are; so a pickSticky that follows a
\* pickSticky returns the account the first one returned, for every model
\* on which that account is usable.
C1_StickyWins ==
    [][\A modelId \in ModelArgs :
        /\ (Calls("pickSticky", modelId) /\ StickyExists
                /\ UsableFor(StickyAccount, modelId, now))
            => /\ last'.account = Some(currentIndex)
               /\ last'.waitMs = 0
               /\ currentIndex' = currentIndex
        /\ (Calls("pickSticky", modelId) /\ last.op = "pickSticky"
                /\ last.account # None
                /\ UsableFor(accounts[last.account[1] + 1], modelId, now))
            => last'.account = last.account]_vars

\* C1 witness: after a failover from account 0 to account 1, account 0 is
\* usable again (its limit has expired and was swept) and pickSticky, called
\* with account 1 as the sticky account, has returned account 1.
C1_Witness ==
    /\ last.op = "pickSticky"
    /\ last.modelId = Some("m1")
    /\ last.preIndex = 1
    /\ last.account = Some(1)
    /\ currentIndex = 1
    /\ accounts[1].modelRateLimits["m1"] = Some(Limit(FALSE, None))
    /\ UsableFor(accounts[1], Some("m1"), now)

\* the first position after `from`, in cyclic order, whose account is usable
FirstUsableAfter(pool, from, modelId, time) ==
    LET n == Len(pool)
        steps == {d \in 1..n : ((from + d) % n) \in UsablePositions(pool, modelId, time)}
    IN  (from + Min(steps)) % n

ExpiredCleared(pool, time) ==
    [i \in 1..Len(pool) |->
        [pool[i] EXCEPT !.modelRateLimits =
            [m \in Models |->
                IF /\ pool[i].modelRateLimits[m] # None
                   /\ pool[i].modelRateLimits[m][1].isRateLimited
                   /\ pool[i].modelRateLimits[m][1].resetTime # None
                   /\ pool[i].modelRateLimits[m][1].resetTime[1] <= time
                THEN Some(Limit(FALSE, None))
                ELSE pool[i].modelRateLimits[m]]]]

\* the remaining cooldown of an account that has an unexpired limit
RemainingCooldown(account, modelId, time) ==
    account.modelRateLimits[modelId[1]][1].resetTime[1] - time

\* the case of C3: no account is usable for the model, the sticky account is
\* not invalid and its limit resets within the max-wait threshold
ShortWaitCase(modelId) ==
    /\ StickyExists
    /\ UsablePositions(accounts, modelId, now) = {}
    /\ ~StickyAccount.isInvalid
    /\ UnexpiredLimit(StickyAccount, modelId, now)
    /\ RemainingCooldown(StickyAccount, modelId, now) <= MAX_WAIT_BEFORE_ERROR_MS

\* C3 as stated: in that case pickSticky returns (null, waitMs), waitMs the
\* sticky account's remaining cooldown, 0 < waitMs <= threshold, and changes
\* neither activeIndex nor any account's state.
C3_Original ==
    [][\A modelId \in ModelArgs :
        (Calls("pickSticky", modelId) /\ ShortWaitCase(modelId))
            => /\ last'.account = None
               /\ last'.waitMs = RemainingCooldown(StickyAccount, modelId, now)
               /\ last'.waitMs > 0 /\ last'.waitMs <= MAX_WAIT_BEFORE_ERROR_MS
               /\ currentIndex' = currentIndex
               /\ accounts' = accounts]_vars

\* C3 amended: in that case pickSticky returns (null, waitMs), waitMs the
\* sticky account's remaining cooldown, 0 < waitMs <= threshold, and leaves
\* activeIndex alone; the accounts change only in that the rate limits that
\* have already expired are cleared (the sweep pickSticky starts with).
C3_ShortWait ==
    [][\A modelId \in ModelArgs :
        (Calls("pickSticky", modelId) /\ ShortWaitCase(modelId))
            => /\ last'.account = None
               /\ last'.waitMs = RemainingCooldown(StickyAccount, modelId, now)
               /\ last'.waitMs > 0 /\ last'.waitMs <= MAX_WAIT_BEFORE_ERROR_MS
               /\ currentIndex' = currentIndex
               /\ accounts' = ExpiredCleared(accounts, now)]_vars

\* C3 witness: in a pool of two accounts, both rate-limited for m1,
\* pickSticky has answered (null, threshold) for the sticky account 0, and an
\* expired limit of another model has been cleared.
C3_Witness ==
    /\ last.op = "pickSticky"
    /\ last.modelId = Some("m1")
    /\ Len(accounts) = 2
    /\ last.preIndex = 0 /\ currentIndex = 0
    /\ UnexpiredLimit(accounts[1], Some("m1"), now)
    /\ UnexpiredLimit(accounts[2], Some("m1"), now)
    /\ last.account = None
    /\ last.waitMs = MAX_WAIT_BEFORE_ERROR_MS
    /\ \E i \in 1..2 : accounts[i].modelRateLimits["m2"] = Some(Limit(FALSE, None))

\* the case of C4: no account is usable for the model and the sticky account
\* is invalid or its limit resets beyond the max-wait threshold
NoShortWaitCase(modelId) ==
    /\ StickyExists
    /\ UsablePositions(accounts, modelId, now) = {}
    /\ \/ StickyAccount.isInvalid
       \/ /\ UnexpiredLimit(StickyAccount, modelId, now)
          /\ RemainingCooldown(StickyAccount, modelId, now) > MAX_WAIT_BEFORE_ERROR_MS

\* C4 as stated: in that case pickSticky advances activeIndex to the next
\* account and returns that account, not null.
C4_Original ==
    [][\A modelId \in ModelArgs :
        (Calls("pickSticky", modelId) /\ NoShortWaitCase(modelId))
            => /\ last'.account = Some((currentIndex + 1) % Len(accounts))
               /\ currentIndex' = (currentIndex + 1) % Len(accounts)]_vars

\* C4 amended: in that case pickSticky returns (null, 0) and leaves
\* activeIndex where it is; the accounts change only in that the rate limits
\* that have already expired are cleared.
C4_NoAccount ==
    [][\A modelId \in ModelArgs :
        (Calls("pickSticky", modelId) /\ NoShortWaitCase(modelId))
            => /\ last'.account = None
               /\ last'.waitMs = 0
               /\ currentIndex' = currentIndex
               /\ accounts' = ExpiredCleared(accounts, now)]_vars

\* C4 witness: in a pool of two accounts, account 0 invalid and account 1
\* rate-limited for m1 beyond the threshold, pickSticky has answered
\* (null, 0) with account 1 still the sticky account.
C4_Witness ==
    /\ last.op = "pickSticky"
    /\ last.modelId = Some("m1")
    /\ Len(accounts) = 2
    /\ last.preIndex = 1 /\ currentIndex = 1
    /\ accounts[1].isInvalid
    /\ UnexpiredLimit(accounts[2], Some("m1"), now)
    /\ RemainingCooldown(accounts[2], Some("m1"), now) > MAX_WAIT_BEFORE_ERROR_MS
    /\ last.account = None
    /\ last.waitMs = 0

\* the step is a pickSticky(m) that immediately follows a
\* markRateLimited(email, resetMs, m) on the sticky account
PickRightAfterMark(m) ==
    /\ last.op = "markRateLimited"
    /\ last.modelId = Some(m)
    /\ StickyExists
    /\ last.email = StickyAccount.email
    /\ Calls("pickSticky", Some(m))

\* C5: for every resetMs (a positive duration, 0, or absent), after
\* markRateLimited(email, resetMs, m) on the sticky account an immediate
\* pickSticky(m) never returns that account: it returns a different usable
\* account, or (null, waitMs) with waitMs at most the cooldown applied.
C5_Original ==
    [][\A m \in Models :
        PickRightAfterMark(m)
            => /\ last'.account # Some(currentIndex)
               /\ last'.account # None
                    => UsableFor(accounts'[last'.account[1] + 1], Some(m), now')
               /\ last'.account = None
                    => last'.waitMs <= Nullish(last.resetMs, Nullish(settings, DEFAULT_COOLDOWN_MS))]_vars

\* the cooldown the claim of C6 names
ClaimedCooldown(resetMs) ==
    IF resetMs # None THEN resetMs[1]
    ELSE IF settings # None THEN settings[1]
    ELSE DEFAULT_COOLDOWN_MS

\* C6: markRateLimited(email, resetMs, m) changes only the rate-limit entry
\* of account `email` for model m, which becomes limited until now + cooldown:
\* the account stays as usable as it was for every other model, no other
\* account changes, activeIndex is unchanged; the cooldown is resetMs, or when
\* that is absent settings.cooldownDurationMs if set, otherwise the default.
C6_MarkFrame ==
    [][\A m \in Models :
        Calls("markRateLimited", Some(m))
            => /\ currentIndex' = currentIndex
               /\ Len(accounts') = Len(accounts)
               /\ \A i \in 1..Len(accounts) :
                    /\ accounts[i].email # last'.email => accounts'[i] = accounts[i]
                    /\ accounts[i].email = last'.email =>
                        /\ accounts'[i] = [accounts[i] EXCEPT !.modelRateLimits[m] =
                              Some(Limit(TRUE, Some(now + ClaimedCooldown(last'.resetMs))))]
                        /\ \A other \in Models \ {m} :
                              UsableFor(accounts'[i], Some(other), now)
                                = UsableFor(accounts[i], Some(other), now)]_vars

\* C6 witness: markRateLimited without resetMs has just limited account 0 of
\* two for m1 until now + settings.cooldownDurationMs, and the account is
\* still usable for m2.
C6_Witness ==
    /\ last.op = "markRateLimited"
    /\ last.modelId = Some("m1")
    /\ last.resetMs = None
    /\ last.email = 1
    /\ settings # None
    /\ Len(accounts) = 2
    /\ accounts[1].modelRateLimits["m1"] = Some(Limit(TRUE, Some(now + settings[1])))
    /\ UsableFor(accounts[1], Some("m2"), now)
    /\ ~UsableFor(accounts[1], Some("m1"), now)

\* an entry whose resetTime has been reached and that the sweep has not
\* cleared yet
ExpiredUnswept(account, m) ==
    /\ account.modelRateLimits[m] # None
    /\ account.modelRateLimits[m][1].isRateLimited
    /\ account.modelRateLimits[m][1].resetTime # None
    /\ account.modelRateLimits[m][1].resetTime[1] <= now

\* C7: once now >= resetTime of an (account, model) entry, the entry no
\* longer keeps the account from being used: a valid account counts as usable
\* for the model in isAccountUsable, getAvailableAccounts and
\* isAllRateLimited, pickSticky and getCurrentStickyAccount return it when it
\* is the account at activeIndex, and pickSticky / pickNext, run with an
\* account at activeIndex, return an account, whether or not the sweep has
\* run; the sweep sets exactly the entries whose
\* resetTime has been reached to isRateLimited = false, resetTime = null and
\* leaves every entry with a later resetTime as it is.
C7_Expiry ==
    /\ [](\A i \in 1..Len(accounts), m \in Models :
            (ExpiredUnswept(accounts[i], m) /\ ~accounts[i].isInvalid)
                => /\ isAccountUsable(accounts[i], Some(m), now)
                   /\ (i - 1) \in getAvailableAccounts(accounts, Some(m), now)
                   /\ ~isAllRateLimited(accounts, Some(m), now))
    /\ [][\A m \in Models :
            /\ (/\ \/ Calls("pickSticky", Some(m))
                   \/ Calls("pickNext", Some(m))
                /\ StickyExists
                /\ \E i \in 1..Len(accounts) :
                     ExpiredUnswept(accounts[i], m) /\ ~accounts[i].isInvalid)
                => last'.account # None
            /\ (/\ \/ Calls("pickSticky", Some(m))
                   \/ Calls("getCurrentSticky", Some(m))
                /\ StickyExists
                /\ ExpiredUnswept(StickyAccount, m) /\ ~StickyAccount.isInvalid)
                => last'.account = Some(currentIndex)
            /\ Calls("clearExpiredLimits", None)
                => accounts' = ExpiredCleared(accounts, now)]_vars

\* C7 witness: the sweep has just cleared an expired entry (account 0, m1)
\* and left the entry of account 1, which resets later, in place.
C7_Witness ==
    /\ last.op = "clearExpiredLimits"
    /\ last.waitMs > 0
    /\ Len(accounts) = 2
    /\ accounts[1].modelRateLimits["m1"] = Some(Limit(FALSE, None))
    /\ UnexpiredLimit(accounts[2], Some("m1"), now)

\* every account is invalid or has an unexpired rate limit for the model
AllUnavailable(pool, modelId, time) ==
    \A i \in 1..Len(pool) :
        pool[i].isInvalid \/ UnexpiredLimit(pool[i], modelId, time)

FutureResets(pool, m, time) ==
    {pool[i].modelRateLimits[m][1].resetTime[1] - time :
        i \in {j \in 1..Len(pool) :
                /\ pool[j].modelRateLimits[m] # None
                /\ pool[j].modelRateLimits[m][1].resetTime # None
                /\ pool[j].modelRateLimits[m][1].resetTime[1] > time}}

\* C9: when every account is unavailable for m, getMinWaitTimeMs(m) is the
\* minimum of resetTime - now over the accounts with a future reset for m;
\* when some account is usable for m it is 0.
C9_MinWait ==
    \A m \in Models :
        /\ UsablePositions(accounts, Some(m), now) # {}
            => getMinWaitTimeMs(accounts, Some(m), now) = 0
        /\ (AllUnavailable(accounts, Some(m), now) /\ FutureResets(accounts, m, now) # {})
            => getMinWaitTimeMs(accounts, Some(m), now) = Min(FutureResets(accounts, m, now))

\* C9 witness: two accounts rate-limited for m1 with different resets;
\* getMinWaitTimeMs answers the nearer one.
C9_Witness ==
    /\ initialized
    /\ Len(accounts) = 2
    /\ AllUnavailable(accounts, Some("m1"), now)
    /\ Cardinality(FutureResets(accounts, "m1", now)) = 2
    /\ getMinWaitTimeMs(accounts, Some("m1"), now) = Min(FutureResets(accounts, "m1", now))
    /\ getMinWaitTimeMs(accounts, Some("m1"), now) > 0

\* C10: in every state activeIndex is a valid index into the account list,
\* or 0 when the pool is empty, whatever activeIndex the configuration file
\* held.
C10_Original ==
    IF Len(accounts) = 0 THEN currentIndex = 0
    ELSE currentIndex >= 0 /\ currentIndex < Len(accounts)

\* the operation just made changed state that the file persists: an
\* account's rate-limit entries, isInvalid, lastUsed, or activeIndex
PersistedStateChanged ==
    /\ last'.op \notin {"initialize", "save", "tick"}
    /\ accounts' # accounts \/ currentIndex' # currentIndex

\* saveToDisk() was called by the operation just made
SaveScheduled == Len(saves') = Len(saves) + 1 /\ saves'[Len(saves')].stage = "mkdir"

\* C11: every pool operation that changes persisted state schedules a save of
\* the config file, the expiry sweep inside pickSticky / pickNext that ends
\* without an account and resetAllRateLimits included.
C11_Original ==
    [][PersistedStateChanged => SaveScheduled]_vars

\* the config file holds the pool as it is in memory: same activeIndex, and
\* for every account the same lastUsed, rate limits and invalid flag
FileEqualsMemory ==
    /\ configFile # None
    /\ configFile[1].activeIndex = Some(currentIndex)
    /\ Len(configFile[1].accounts) = Len(accounts)
    /\ \A i \in 1..Len(accounts) :
        /\ configFile[1].accounts[i].email = accounts[i].email
        /\ configFile[1].accounts[i].lastUsed = accounts[i].lastUsed
        /\ configFile[1].accounts[i].modelRateLimits = accounts[i].modelRateLimits
        /\ configFile[1].accounts[i].isInvalid = accounts[i].isInvalid

\* a save has just completed and none is in flight
SavesCompleted == initialized /\ last.op = "save" /\ saves = <<>>

\* C12: once every scheduled background save has completed with no later
\* mutation, the persisted file equals the in-memory state (the save of a
\* failover persists the new activeIndex); and the snapshot a save builds is
\* the pool as it is in memory at that instant.
C12_Original ==
    /\ [](SavesCompleted => FileEqualsMemory)
    /\ [][\A i \in 1..Len(saves) :
            (saves[i].stage = "mkdir" /\ Len(saves') = Len(saves) /\ saves'[i].stage = "write")
                => saves'[i].config[1].activeIndex = Some(currentIndex)]_vars

\* the names of the unknown fields a file holds: top level, settings, and
\* each account record
UnknownFields(file) ==
    [top |-> file.top, settings |-> file.settingsExtra,
     accounts |-> [i \in 1..Len(file.accounts) |-> file.accounts[i].extra]]

\* C13: loading the config file and saving it again preserves every field
\* the manager does not understand, at the top level and inside each account
\* record: a completed save leaves the file's unknown fields as they were.
C13_Original ==
    [][(configFile # None /\ configFile' # configFile)
            => UnknownFields(configFile'[1]) = UnknownFields(configFile[1])]_vars

\* a request is between the read and the write of a pool operation
InsideCall(r) == calls # None /\ calls.of[r].pc = "called"

\* C14: with several requests in flight, each pool operation runs atomically
\* with respect to the others: while a request is between the read and the
\* write of an operation, the pool is as the operation read it, no other
\* request is inside an operation, and the next step that touches the pool
\* or a request is that operation's own write.
C14_Atomic ==
    /\ [](\A r \in Requests :
            InsideCall(r)
                => /\ accounts = calls.of[r].seenAccounts
                   /\ currentIndex = calls.of[r].seenIndex
                   /\ \A q \in Requests \ {r} : ~InsideCall(q))
    /\ [][\A r \in Requests :
            InsideCall(r)
                => \/ calls'.of[r].pc = "idle"
                   \/ UNCHANGED <<accounts, currentIndex, calls>>]_vars

\* C14 witness: with several requests in flight, a pickSticky has just failed
\* over (read and write of activeIndex) from an account that a
\* markRateLimited or markInvalid had made unusable.
C14_Witness ==
    /\ calls # None
    /\ last.op = "pickSticky"
    /\ last.account # None
    /\ last.account # Some(last.preIndex)
    /\ marks > 0
    /\ \A r \in Requests : ~InsideCall(r)

\* The token endpoint was asked for a token of the account last'.email by
\* the step taken, and answered.
TokenEndpointAnswered == last'.op = "getToken" /\ last'.answer # None

\* a transient failure of a token refresh: no answer (DNS failure,
\* connection refused, connection reset, timeout) or a 5xx answer
TransientFailure(answer) == answer.kind = "rejects" \/ answer.status >= 500

\* what getTokenForAccount threw in the step taken ({} when it returned)
Surfaced == last'.auth[1].result.message

\* C15: when the refresh of an OAuth account's token fails with a transient
\* failure (DNS failure, connection refused / reset, timeout, or a 5xx answer
\* of the token endpoint), getTokenForAccount surfaces AUTH_NETWORK_ERROR,
\* does not call the invalid callback, leaves isInvalid false and the token
\* cache as it was, and the dispatcher goes on to its next attempt.
C15_Original ==
    [][TokenEndpointAnswered /\ TransientFailure(last'.answer[1])
        => /\ "AUTH_NETWORK_ERROR" \in Surfaced
           /\ ~last'.auth[1].onInvalid
           /\ ~accounts'[last'.email].isInvalid
           /\ tokenCache' = tokenCache
           /\ request'.pc = "attempt"
           /\ request'.attempt = request.attempt + 1]_vars

\* a permanent failure of a token refresh: a 4xx answer, a 200 answer whose
\* body is not JSON, or a 200 answer whose JSON has no access_token
PermanentFailure(answer) ==
    \/ answer.status \in 400..499
    \/ answer.status = 200 /\ answer.kind = "text"
    \/ answer.status = 200 /\ answer.kind = "json" /\ answer.access_token = None

\* C16: when the token endpoint answers with a 4xx, a malformed body or a
\* successful response without access_token, getTokenForAccount marks the
\* account invalid through the callback and surfaces AUTH_INVALID; an
\* undefined token is never cached and never returned as an access token.
C16_Original ==
    /\ [][TokenEndpointAnswered /\ PermanentFailure(last'.answer[1])
            => /\ "AUTH_INVALID" \in Surfaced
               /\ last'.auth[1].onInvalid
               /\ accounts'[last'.email].isInvalid]_vars
    /\ [](\A e \in Emails : tokenCache[e] # None => tokenCache[e][1].token # None)
    /\ [][last'.op = "getToken" /\ ~last'.auth[1].result.threw
            => last'.auth[1].result.value # None]_vars

\* The step taken was a POST to an upstream endpoint for the account
\* last'.email; last'.posts lists the POSTs of the attempt so far, this one
\* last, each with the status answered (0: none) and the token carried.
Posted == last'.op = "post"
Answered(status) == Posted /\ last'.answer[1].status = status
ThisPost == last'.posts[Len(last'.posts)]
EarlierPosts == {last'.posts[i] : i \in 1..(Len(last'.posts) - 1)}

\* C17: after upstream answers 401 for an account, the token and project
\* caches of that account are cleared, the 401 marks the account neither
\* rate-limited nor invalid, and no later POST of the request for that
\* account carries the token that was rejected (a token the token endpoint
\* issued: the undefined token of C16 is left aside).
C17_Original ==
    /\ [][Answered(401)
            => /\ tokenCache'[last'.email] = None
               /\ ~projectCache'[last'.email]
               /\ accounts'[last'.email].isInvalid = accounts[last'.email].isInvalid
               /\ (\A p \in EarlierPosts : p.status # 429)
                    => accounts'[last'.email].modelRateLimits
                        = accounts[last'.email].modelRateLimits]_vars
    /\ [][Posted => \A p \in EarlierPosts :
                        p.status = 401 /\ p.token # None => ThisPost.token # p.token]_vars

\* The step taken ended an attempt of the retry loop: the last endpoint was
\* posted to, or an endpoint answered 200.
AttemptEnded ==
    /\ Posted
    /\ \/ Len(last'.posts) = Len(ANTIGRAVITY_ENDPOINT_FALLBACKS)
       \/ ThisPost.status = 200

\* the step taken gave the account last'.email a rate limit for the model
MarkedRateLimited ==
    /\ accounts'[last'.email].modelRateLimits[SendModel]
        # accounts[last'.email].modelRateLimits[SendModel]
    /\ accounts'[last'.email].modelRateLimits[SendModel] # None
    /\ accounts'[last'.email].modelRateLimits[SendModel][1].isRateLimited

\* C18: within one attempt of the retry loop the (account, model) pair is
\* marked rate-limited if and only if every endpoint tried in the attempt
\* answered 429; a mix of 429 with 401, 5xx or thrown errors does not mark.
C18_Original ==
    [][AttemptEnded
        => (MarkedRateLimited
                <=> \A i \in 1..Len(last'.posts) : last'.posts[i].status = 429)]_vars

\* every endpoint of the attempt answered 5xx or gave no answer (a network
\* failure of the POST)
SoftFailed(posts) ==
    /\ Len(posts) = Len(ANTIGRAVITY_ENDPOINT_FALLBACKS)
    /\ \A i \in 1..Len(posts) : posts[i].status = 0 \/ posts[i].status >= 500

\* an account other than x is usable for the model of the requests
OtherUsable(x) ==
    \E i \in 1..Len(accounts) :
        accounts[i].email # x /\ UsableFor(accounts[i], Some(SendModel), now)

OtherClientError(status) == status \in 400..499 /\ status \notin {401, 429}

\* C20: an upstream 4xx answer other than 401 and 429 is fatal: the request
\* fails with that error, no further endpoint or account is tried for it,
\* and the account is marked neither rate-limited nor invalid.
C20_Original ==
    [][Posted /\ OtherClientError(ThisPost.status)
        => /\ request'.pc = "done"
           /\ "API error 4" \in request'.result
           /\ accounts' = accounts
           /\ currentIndex' = currentIndex]_vars

\* ---- C25 .. C28: the events streamSSEResponse yields for one body

\* the positions of the events of one type in a sequence of yielded events
PositionsOf(out, type) == {i \in 1..Len(out) : out[i].type = type}

\* the stream has been read to its end and the generator has returned
Completed == stream.pc = "done"

\* some line read so far holds a part that is null or whose functionCall is null
MalformedRead ==
    \E i \in 1..Len(stream.lines) : \E k \in 1..Len(stream.lines[i].parts) :
        \/ stream.lines[i].parts[k].isNull
        \/ stream.lines[i].parts[k].functionCall = "null"

\* C25: for every sequence of upstream events, malformed parts included, the
\* content blocks are bracketed: every content_block_start has exactly one
\* later content_block_stop with its index, no stop comes without an earlier
\* start, at most one block is open at a time, and the indices of the blocks
\* are 0, 1, 2, ... in order.
C25_Original ==
    Completed =>
        LET out == stream.out
            starts == PositionsOf(out, "content_block_start")
            stops == PositionsOf(out, "content_block_stop")
        IN  /\ \A i \in starts :
                Cardinality({j \in stops : j > i /\ out[j].index = out[i].index}) = 1
            /\ \A j \in stops :
                \E i \in starts : i < j /\ out[i].index = out[j].index
            /\ \A i \in starts : \A k \in starts :
                i < k => \E j \in stops : i < j /\ j < k /\ out[j].index = out[i].index
            /\ \A i \in starts :
                out[i].index = Cardinality({k \in starts : k < i})

\* a part that is an object with a functionCall object
IsCall(part) == ~part.isNull /\ part.functionCall = "call"

\* the body read held a well-formed functionCall part
CallRead ==
    \E i \in 1..Len(stream.lines) : \E k \in 1..Len(stream.lines[i].parts) :
        IsCall(stream.lines[i].parts[k])

\* the stop_reason of the last message_delta yielded
FinalStopReason ==
    LET deltas == PositionsOf(stream.out, "message_delta")
    IN  stream.out[CHOOSE i \in deltas : \A j \in deltas : j <= i].kind

\* C27: when the body held a functionCall part, the final message_delta
\* carries stop_reason tool_use, whatever finishReason the same or a later
\* event reports.
C27_Original ==
    (Completed /\ CallRead) => FinalStopReason = "tool_use"

\* a part that is an empty text
IsEmptyText(part) ==
    ~part.isNull /\ ~part.thought /\ part.text = Some("") /\ part.functionCall = "absent"

\* every line read was JSON whose parts, if any, are all empty texts
OnlyEmptyTextRead ==
    \A i \in 1..Len(stream.lines) :
        /\ stream.lines[i].json
        /\ \A k \in 1..Len(stream.lines[i].parts) : IsEmptyText(stream.lines[i].parts[k])

\* C28: an empty text part yields nothing for a block, and a completed stream
\* whose body held no parts, or only empty text parts, is a message with
\* exactly one block, a text block at index 0.
C28_Original ==
    /\ [][(last'.op = "read"
           /\ \A k \in 1..Len(last'.event[1].parts) : IsEmptyText(last'.event[1].parts[k]))
          => PositionsOf(stream'.out, "content_block_start")
                = PositionsOf(stream.out, "content_block_start")
             /\ PositionsOf(stream'.out, "content_block_delta")
                = PositionsOf(stream.out, "content_block_delta")]_vars
    /\ [](( Completed /\ OnlyEmptyTextRead) =>
            LET starts == PositionsOf(stream.out, "content_block_start")
            IN  /\ Cardinality(starts) = 1
                /\ \A i \in starts : stream.out[i].index = 0 /\ stream.out[i].kind = "text")

\* the positions of the deltas of one kind
DeltasOf(out, kind) ==
    {d \in PositionsOf(out, "content_block_delta") : out[d].kind = kind}

\* position d lies inside a block with its index: after the start, before
\* the stop, with no stop of that index in between
InsideBlock(out, d) ==
    \E i \in PositionsOf(out, "content_block_start") :
        /\ i < d
        /\ out[i].index = out[d].index
        /\ \E j \in PositionsOf(out, "content_block_stop") :
            j > d /\ out[j].index = out[d].index
        /\ \A j \in PositionsOf(out, "content_block_stop") :
            (i < j /\ j < d) => out[j].index # out[d].index

\* C26: the events of a completed stream start with the one message_start,
\* which precedes every content_block event, and end with the one
\* message_delta followed by the one message_stop; every content_block_delta
\* lies inside the block with its index; a signature_delta belongs to a
\* thinking block, comes at most once per block and after all the
\* thinking_deltas of the block.
C26_EventOrder ==
    Completed =>
        LET out == stream.out
        IN  /\ PositionsOf(out, "message_start") = {1}
            /\ PositionsOf(out, "message_delta") = {Len(out) - 1}
            /\ PositionsOf(out, "message_stop") = {Len(out)}
            /\ \A d \in PositionsOf(out, "content_block_delta") : InsideBlock(out, d)
            /\ \A s \in DeltasOf(out, "signature_delta") :
                /\ \E i \in PositionsOf(out, "content_block_start") :
                    i < s /\ out[i].index = out[s].index /\ out[i].kind = "thinking"
                /\ \A t \in DeltasOf(out, "signature_delta") :
                    out[t].index = out[s].index => t = s
                /\ \A t \in DeltasOf(out, "thinking_delta") :
                    out[t].index = out[s].index => t < s

\* a completed stream that read a malformed part and yielded a signed
\* thinking block followed by a text or tool_use block
C26_Witness ==
    /\ Completed
    /\ DeltasOf(stream.out, "signature_delta") # {}
    /\ \E s \in DeltasOf(stream.out, "signature_delta") :
        \E t \in DeltasOf(stream.out, "text_delta") \cup DeltasOf(stream.out, "input_json_delta") :
            s < t
    /\ MalformedRead

\* ---- C21: every account is rate-limited beyond the max-wait threshold

\* the reset times of the unexpired limits of the pool for the model
ResetTimes(modelId) ==
    {accounts[i].modelRateLimits[modelId][1].resetTime[1] :
        i \in {k \in 1..Len(accounts) : UnexpiredLimit(accounts[k], Some(modelId), now)}}

\* the pool is not empty and every account carries an unexpired limit for
\* the model that resets later than the max-wait threshold from now
AllLimitedBeyondMaxWait(modelId) ==
    /\ accounts # <<>>
    /\ \A i \in 1..Len(accounts) :
        /\ UnexpiredLimit(accounts[i], Some(modelId), now)
        /\ accounts[i].modelRateLimits[modelId][1].resetTime[1] - now
            > MAX_WAIT_BEFORE_ERROR_MS

\* a turn of the retry loop starts within the attempt budget
TurnStarts ==
    /\ request.pc = "attempt"
    /\ request.attempt < maxAttempts
    /\ last'.op = "attempt"

\* C21: a turn of the retry loop that finds every account rate-limited for
\* the model with a reset further away than the max-wait threshold ends the
\* request with RESOURCE_EXHAUSTED naming the soonest reset time, in that
\* step: the request neither sleeps nor posts, and the clock has not moved.
C21_ResourceExhausted ==
    [][(TurnStarts /\ AllLimitedBeyondMaxWait(request.model))
        => /\ request'.pc = "done"
           /\ request'.result = {"RESOURCE_EXHAUSTED"}
           /\ request'.resetTime \in ResetTimes(request.model)
           /\ \A t \in ResetTimes(request.model) : request'.resetTime <= t
           /\ request'.posts = <<>>
           /\ now' = now]_vars

\* a request that arrives while every account is limited beyond the
\* threshold has ended with RESOURCE_EXHAUSTED in its first turn
C21_Witness ==
    /\ last.op = "attempt"
    /\ last.attempt = 0
    /\ request.pc = "done"
    /\ request.result = {"RESOURCE_EXHAUSTED"}
    /\ AllLimitedBeyondMaxWait(request.model)
    /\ request.resetTime > now + MAX_WAIT_BEFORE_ERROR_MS

\* ---- C23: the retry loop ends

\* max(MAX_RETRIES, accountCount + 1)
AttemptBudget ==
    IF MAX_RETRIES > Len(accounts) + 1 THEN MAX_RETRIES ELSE Len(accounts) + 1

\* how far a call is into its retry loop: the turn, and inside the turn the
\* sticky sleep, the all-accounts sleep, the token, the project, the endpoints
PhaseOf(req) ==
    CASE req.pc = "attempt" -> 0
      [] req.pc = "sleepSticky" -> 1
      [] req.pc = "sleepAll" -> 2
      [] req.pc = "token" -> 3
      [] req.pc = "project" -> 4
      [] OTHER -> 5 + req.endpoint

Progress(req) == req.attempt * (6 + Len(ANTIGRAVITY_ENDPOINT_FALLBACKS)) + PhaseOf(req)

\* the steps the call itself takes
LoopSteps == {"attempt", "wakeSticky", "wakeAll", "getToken", "getProject", "post"}

\* C23: a call terminates. Its turn counter never exceeds
\* max(MAX_RETRIES, accountCount + 1); every step of the call ends it or
\* takes it further into the loop (so a turn sleeps at most once for the
\* sticky account and once for all accounts); a sleep gets closer to its
\* end; 'Max retries exceeded' is thrown exactly at the head of the loop with
\* the turns used up; and whatever upstream answers, the call ends.
C23_Terminates ==
    /\ [](request.attempt <= AttemptBudget)
    /\ [][last'.op \in LoopSteps
            => request'.pc = "done" \/ Progress(request') > Progress(request)]_vars
    /\ [][last'.op = "sleep"
            => request' = request /\ now < request.wakeAt /\ now' > now]_vars
    /\ [][(last'.op \in LoopSteps /\ request'.result = {"Max retries exceeded"})
            <=> (last'.op = "attempt" /\ request.attempt = AttemptBudget)]_vars
    /\ (request.pc \notin {"idle", "done"}) ~> (request.pc = "done")

\* a call that has used up its turns and ended with 'Max retries exceeded'
C23_Witness ==
    /\ request.pc = "done"
    /\ request.result = {"Max retries exceeded"}
    /\ last.op = "attempt"
    /\ last.attempt = AttemptBudget
    /\ AttemptBudget = Len(accounts) + 1

\* ---- C22: no accounts configured

\* C22: with an empty pool a call throws in its first step: it does not
\* sleep, it does not go on in a call for the fallback model, and nothing is
\* posted upstream.
C22_Original ==
    /\ [][(accounts = <<>> /\ last'.op = "attempt" /\ request.depth = 0
           /\ request.attempt = 0)
            => request'.pc = "done" /\ request'.result # {"ok"}]_vars
    /\ [](accounts = <<>> /\ initialized
            => /\ request.pc \notin {"sleepSticky", "sleepAll"}
               /\ request.depth = 0
               /\ request.posts = <<>>)

\* ---- C24: the model fallback

\* C24: a client request goes over to a fallback model at most once. Only a
\* call with fallback enabled whose model has a fallback configured goes
\* over, to a call for that model with fallback disabled that starts its own
\* retry loop, and 'No accounts available' is thrown only by a call with
\* fallback disabled or without a configured fallback model.
C24_FallbackOnce ==
    /\ [](request.depth <= 1)
    /\ [][(request'.id = request.id /\ request'.depth # request.depth)
            => /\ request.depth = 0
               /\ request.fallbackEnabled
               /\ getFallbackModel(request.model) = Some(request'.model)
               /\ request'.depth = 1
               /\ ~request'.fallbackEnabled
               /\ request'.pc = "attempt"
               /\ request'.attempt = 0]_vars
    /\ [][(request'.id = request.id /\ request'.depth = request.depth)
            => /\ request'.model = request.model
               /\ request'.fallbackEnabled = request.fallbackEnabled]_vars
    /\ [][(last'.op \in LoopSteps /\ request'.result = {"No accounts available"})
            => ~request.fallbackEnabled \/ getFallbackModel(request.model) = None]_vars

\* a call for the fallback model, on a pool that has accounts, found no
\* account either and threw, although its model has a fallback of its own
C24_Witness ==
    /\ accounts # <<>>
    /\ request.pc = "done"
    /\ request.depth = 1
    /\ request.result = {"No accounts available"}
    /\ getFallbackModel(request.model) # None

\* ---- C29, C30: the events one sendMessageStream call delivers

\* C29: the events delivered by one call hold at most one message_start and
\* at most one message_stop, and after an upstream body has failed once a
\* message was started nothing more is delivered by that call.
C29_Original ==
    /\ [](Cardinality(PositionsOf(stream.out, "message_start")) <= 1)
    /\ [](Cardinality(PositionsOf(stream.out, "message_stop")) <= 1)
    /\ [][(stream.pc = "failed" /\ stream.out # <<>> /\ request'.id = request.id)
            => stream'.out = stream.out]_vars

\* C30: when the consumer leaves mid-stream the reader of the upstream body
\* is cancelled or released, the call delivers no further event, and the
\* step writes nothing to the pool.
C30_Original ==
    /\ [](stream.pc = "returned" => stream.reader \in {"cancelled", "released"})
    /\ [][(stream.pc = "returned" /\ request'.id = request.id)
            => stream'.out = stream.out]_vars
    /\ [][last'.op = "leave"
            => accounts' = accounts /\ currentIndex' = currentIndex]_vars

\* ---- C31
\* the signature the cache holds under a tool_use id, if any
CachedUnder(id) ==
    {signatureCache[i].signature :
        i \in {j \in 1..Len(signatureCache) : id = Some(signatureCache[j].id)}}

\* what the claim says is attached for a Gemini target: the block's own
\* signature, else the cached one, else the sentinel
ClaimedSignature(block) ==
    IF block.thoughtSignature \notin {None, Some("")}
    THEN block.thoughtSignature[1]
    ELSE IF CachedUnder(block.id) # {}
         THEN CHOOSE s \in CachedUnder(block.id) : TRUE
         ELSE GEMINI_SKIP_SIGNATURE

\* C31: for a Gemini target every tool_use block becomes a functionCall part
\* whose thoughtSignature is the block's own signature, else the signature
\* cached under the tool_use id, else the sentinel, and is never empty or
\* missing; for a Claude target no thoughtSignature is attached and the
\* functionCall carries the tool_use id.
C31_Original ==
    last.op = "convert" =>
        LET part == last.part[1]
        IN  /\ last.family = "gemini" =>
                /\ part.thoughtSignature \notin {None, Some("")}
                /\ part.thoughtSignature = Some(ClaimedSignature(last.block))
            /\ last.family = "claude" =>
                /\ part.thoughtSignature = None
                /\ part.functionCall.id = last.block.id

\* ---- C32
\* the adapter has been given a whole message
MessageAdapted ==
    /\ openai # None
    /\ openai[1].events # <<>>
    /\ openai[1].events[Len(openai[1].events)].type = "message_stop"

\* the positions of the chunks of a kind
ChunksOf(out, kind) == {i \in 1..Len(out) : out[i].kind = kind}

\* the positions of the events that start a tool_use block
ToolStarts(events) ==
    {i \in 1..Len(events) :
        events[i].type = "content_block_start" /\ events[i].kind = "tool_use"}

\* the 0-based number of the tool_use block that is open at an event, if one is
OpenToolCall(events, i) ==
    LET starts == {j \in EventsOfType(events, "content_block_start") : j <= i}
        stops == {j \in EventsOfType(events, "content_block_stop") : j <= i}
    IN  IF Cardinality(starts) > Cardinality(stops)
           /\ \E j \in ToolStarts(events) : j <= i /\ \A k \in starts : k <= j
        THEN Some(Cardinality({j \in ToolStarts(events) : j <= i}) - 1)
        ELSE None

DocumentedAliases ==
    {<<<<"o", "p", "u", "s", "-", "p", "r", "o", "x", "y">>, ClaudeOpus>>,
     <<<<"s", "o", "n", "n", "e", "t", "-", "p", "r", "o", "x", "y">>, ClaudeSonnet>>,
     <<<<"g", "e", "m", "i", "n", "i", "-", "p", "r", "o", "x", "y">>, GeminiFlash>>,
     <<<<"o", "p", "u", "s">>, ClaudeOpus>>,
     <<<<"c", "l", "a", "u", "d", "e", "-", "o", "p", "u", "s">>, ClaudeOpus>>,
     <<<<"s", "o", "n", "n", "e", "t">>, ClaudeSonnet>>,
     <<<<"c", "l", "a", "u", "d", "e", "-", "s", "o", "n", "n", "e", "t">>, ClaudeSonnet>>,
     <<<<"f", "l", "a", "s", "h">>, GeminiFlash>>,
     <<<<"g", "e", "m", "i", "n", "i">>, GeminiFlash>>}

\* the model ids the upstream serves
RealModelIds == {ClaudeOpus, ClaudeSonnet, GeminiFlash, GeminiPro}

\* the model the front door falls back to
DefaultModel == ClaudeSonnet

\* C33: the front door maps every alias of the setup guide's table (in any
\* letter case) to the model id the table states, and every model name that
\* is neither in the table nor a real model id to the default model.
C33_Original ==
    (last.op = "openai" /\ last.openaiRequest.model # None) =>
        LET given == last.openaiRequest.model[1]
            name == toLowerCase(given)
            resolved == last.internal[1].model
        IN  /\ \A row \in DocumentedAliases : name = row[1] => resolved = row[2]
            /\ ((\A row \in DocumentedAliases : name # row[1]) /\ given \notin RealModelIds)
                    => resolved = DefaultModel

\* ---- C34
\* the reset durations parsed from the 429 answers of the attempt that the
\* step taken belongs to
ParsedInAttempt ==
    {last'.posts[i].resetMs[1] :
        i \in {j \in 1..Len(last'.posts) :
                last'.posts[j].status = 429 /\ last'.posts[j].resetMs # None}}

\* the cooldown the claim states for the attempt
AttemptCooldown ==
    IF ParsedInAttempt # {}
    THEN CHOOSE r \in ParsedInAttempt : \A other \in ParsedInAttempt : r <= other
    ELSE IF settings # None THEN settings[1] ELSE DEFAULT_COOLDOWN_MS

SelectionStep(from) ==
    /\ request.pc = from
    /\ request'.pc = "token"

\* the account the call holds is usable for its model in the pool as the
\* step taken leaves it
SelectedUsable ==
    /\ request'.account \in 1..Len(accounts')
    /\ UsableFor(accounts'[request'.account], Some(request'.model), now)

\* C35: every upstream POST of a call uses the account the call selected, and
\* that account was usable for the model (not invalid, no unexpired rate
\* limit) when it was selected, on each of the three selection paths.
C35_UsableWhenSelected ==
    /\ [][\A from \in {"attempt", "sleepSticky", "sleepAll"} :
            SelectionStep(from) => SelectedUsable]_vars
    /\ [][Posted => /\ request.pc = "post"
                    /\ last'.email = request.account]_vars

\* an account was selected by pickNext after the wait for all accounts, in a
\* pool that holds an invalid account
C35_Witness ==
    /\ last.op = "wakeAll"
    /\ request.pc = "token"
    /\ \E i \in 1..Len(accounts) : accounts[i].isInvalid

\* ---- C36
\* the waits that remain for the accounts that are valid and have a reset
\* for the model ahead of them
ValidPendingWaits(pool, modelId, time) ==
    {pool[i].modelRateLimits[modelId][1].resetTime[1] - time :
        i \in {j \in 1..Len(pool) :
                /\ ~pool[j].isInvalid
                /\ UnexpiredLimit(pool[j], Some(modelId), time)}}

\* the step taken began the sleep of the branch for all accounts being
\* rate-limited
SleepAllBegins == request.pc # "sleepAll" /\ request'.pc = "sleepAll"

\* the step taken is the one that follows that sleep
SleepAllEnds == request.pc = "sleepAll" /\ last'.op = "wakeAll"

\* C36: whenever the dispatcher sleeps getMinWaitTimeMs(model) because all
\* accounts are rate-limited, the wait is the cooldown that remains for a
\* valid account (never that of an invalid account, never a default), and
\* after the sleep some account is usable for the model, pickNext returns it
\* and the call proceeds with it.
C36_Original ==
    /\ [][SleepAllBegins =>
            request'.wakeAt - now \in ValidPendingWaits(accounts', request'.model, now)]_vars
    /\ [][SleepAllEnds =>
            /\ UsablePositions(accounts', Some(request.model), now) # {}
            /\ request'.pc = "token"]_vars

\* ---- C37
\* the step taken turned the call to the fallback model
FallbackTaken ==
    /\ request'.id = request.id
    /\ request'.depth = request.depth + 1

\* C37: the fallback model is consulted only when the handling of the rate
\* limits has left the call without an account; a turn that finds every
\* account rate-limited for the model beyond the max-wait threshold fails
\* with RESOURCE_EXHAUSTED even when fallback is enabled and the model has a
\* fallback model.
C37_ExhaustedBeforeFallback ==
    /\ [][(TurnStarts /\ AllLimitedBeyondMaxWait(request.model))
            => /\ request'.pc = "done"
               /\ request'.result = {"RESOURCE_EXHAUSTED"}
               /\ request'.model = request.model
               /\ request'.depth = request.depth]_vars
    /\ [][FallbackTaken
            => /\ last'.op \in {"attempt", "wakeSticky", "wakeAll"}
               /\ UsablePositions(accounts', Some(request.model), now) = {}
               /\ ~AllLimitedBeyondMaxWait(request.model)]_vars

\* a call with fallback enabled, for a model that has a fallback model, has
\* failed with RESOURCE_EXHAUSTED on a pool limited beyond the threshold
C37_Witness ==
    /\ last.op = "attempt"
    /\ request.pc = "done"
    /\ request.result = {"RESOURCE_EXHAUSTED"}
    /\ request.depth = 0
    /\ request.fallbackEnabled
    /\ getFallbackModel(request.model) # None
    /\ AllLimitedBeyondMaxWait(request.model)

\* the text of the deltas yielded for the block with this index, in order
RECURSIVE StreamedText(_, _)
StreamedText(out, index) ==
    IF out = <<>> THEN ""
    ELSE (IF /\ Head(out).type = "content_block_delta"
             /\ Head(out).index = index
             /\ Head(out).kind \in {"text_delta", "thinking_delta"}
          THEN Head(out).text ELSE "")
         \o StreamedText(Tail(out), index)

\* the blocks the streaming path has emitted, in the order of their start:
\* kind and concatenated text
StreamedBlocks(out) ==
    LET starts == SelectSeq(out, LAMBDA ev : ev.type = "content_block_start")
    IN  [b \in 1..Len(starts) |->
            [type |-> starts[b].kind, text |-> StreamedText(out, starts[b].index)]]

\* the blocks of the accumulated response: kind and text
AccumulatedBlocks(content) ==
    [b \in 1..Len(content) |-> [type |-> content[b].type, text |-> content[b].text]]

\* the parts of the body that the loops reach: the parts of the lines that
\* parse, up to the first part that makes the loop throw
RECURSIVE ReachedParts(_)
ReachedParts(lines) ==
    IF lines = <<>> THEN <<>>
    ELSE LET parts == Head(lines).parts
             nulls == {i \in 1..Len(parts) : parts[i].isNull}
             upTo == IF nulls = {} THEN Len(parts)
                     ELSE (CHOOSE i \in nulls : \A j \in nulls : i <= j) - 1
         IN  (IF Head(lines).json THEN SubSeq(parts, 1, upTo) ELSE <<>>)
             \o ReachedParts(Tail(lines))

\* the runs of adjacent thought parts (a part with an empty text between them
\* does not end a run): the text of each run and the signatures received in it
RECURSIVE ThoughtRuns(_, _)
ThoughtRuns(parts, run) ==
    LET ended == IF run = None THEN <<>> ELSE run
    IN  IF parts = <<>> THEN ended
        ELSE LET p == Head(parts)
             IN  IF p.thought /\ p.text # None
                 THEN LET open == IF run = None
                                  THEN [text |-> "", signatures |-> {}]
                                  ELSE run[1]
                      IN  ThoughtRuns(Tail(parts),
                            Some([text |-> open.text \o p.text[1],
                                  signatures |-> open.signatures
                                                 \cup ({p.thoughtSignature} \ {0})]))
                 ELSE IF p.text = Some("") /\ p.functionCall = "absent"
                 THEN ThoughtRuns(Tail(parts), run)
                 ELSE ended \o ThoughtRuns(Tail(parts), None)

\* both paths have read the body to its end
BothRead ==
    /\ stream.pc = "done"
    /\ accumulated # None
    /\ accumulated[1].pc = "done"

\* C38: for one upstream SSE event sequence, parseThinkingSSEResponse
\* accumulates the blocks that streamSSEResponse emits: the same kinds in the
\* same order with the same concatenated text (adjacent parts of one kind
\* merged into one block), and every thinking block carries only a signature
\* received within its own run of thought parts.
C38_Original ==
    BothRead
    => /\ AccumulatedBlocks(accumulated[1].content) = StreamedBlocks(stream.out)
       /\ \A b \in 1..Len(accumulated[1].content) :
            LET block == accumulated[1].content[b]
                runs == ThoughtRuns(ReachedParts(stream.lines), None)
            IN  block.type = "thinking"
                => \E r \in 1..Len(runs) :
                    /\ runs[r].text = block.text
                    /\ block.signature \in runs[r].signatures \cup {0}

\* ---- C39
\* the step taken selected an account for the running call
SelectedByStep ==
    /\ last'.op \in {"attempt", "wakeSticky", "wakeAll"}
    /\ request'.pc = "token"

\* the positions of the accounts that markInvalid has been applied to
InvalidPositions(pool) == {i \in 1..Len(pool) : pool[i].isInvalid}

\* C39: after markInvalid has been applied to an account, no operation of
\* the dispatcher (the selections, markRateLimited, the expiry sweep, the
\* token acquisition for the selected accounts) selects the account again or
\* clears its isInvalid flag; only loading the configuration resets it.
C39_Original ==
    /\ [][initialized => InvalidPositions(accounts) \subseteq InvalidPositions(accounts')]_vars
    /\ [][SelectedByStep => request'.account \notin InvalidPositions(accounts)]_vars

\* ---- C40
\* the running call has just left a turn of its retry loop through the catch
\* of a 5xx or a network failure (the answer of the last endpoint), on the
\* account of that turn
SoftFailureSeen ==
    /\ last.op = "post"
    /\ request.pc = "attempt"
    /\ Len(last.posts) > 0
    /\ last.posts[Len(last.posts)].status \in {0, 503}

\* another account than this one is usable for the model
AnotherUsable(position, modelId) ==
    \E i \in 1..Len(accounts) :
        i # position /\ UsableFor(accounts[i], Some(modelId), now)

\* C40: with calls in flight that observe a 5xx or network failure on the
\* same account, a call does not retry on the account it failed on while
\* another account is usable for the model: the advance of the pool made by
\* one call is not undone by the advance made by another.
C40_Original ==
    [][(SoftFailureSeen /\ AnotherUsable(last.email, request.model) /\ SelectedByStep)
        => request'.account # last.email]_vars

====
